---- MODULE Spec2Model ----
(***************************************************************************)
(* Model of the forecast pipeline of tcs-forecast-agent:                   *)
(*   agent/orchestrator.py  ForecastOrchestrator.generate_forecast,        *)
(*                          _extract_transcript_query, _extract_json       *)
(*   tools/*.py             the three tool adapters                        *)
(*   app/main.py            the /forecast handler around generate_forecast *)
(* Texts are TLA+ strings; every text operation below works on the         *)
(* characters of the string, as the Python code does.                      *)
(***************************************************************************)
EXTENDS Integers, Sequences, FiniteSets, TLC

VARIABLES
    pc,              \* position of generate_forecast: which statement runs next
    provider,        \* settings.use_openai as seen by get_provider_name()
    task,            \* the task argument
    env,             \* what each collaborator call of this request met
    tools_used,      \* local list tools_used
    tool_outputs,    \* local list tool_outputs
    transcript_query,\* argument passed to analyze_transcripts ("" before step 2)
    llm_prompt,      \* the values interpolated into synthesis_prompt
    llm_calls,       \* number of self.llm.invoke calls made
    output_text,     \* local output_text
    outcome,         \* what generate_forecast gave its caller
    hpc,             \* position of the /forecast handler ("direct": no handler)
    caught,          \* str(e) of the exception the handler's try block raised
    db_added,        \* log rows this request passed to db.add
    db_rows,         \* log rows this request committed
    response,        \* what the handler gave the HTTP client
    peer,            \* the frame of a second, suspended generate_forecast call
    _vectorstore,    \* module global _vectorstore of qualitative_analysis
    _initialized,    \* module global _initialized of qualitative_analysis
    threads,         \* the frame of initialize_vectorstore in each thread
    files,           \* what each transcripts directory holds
    builds           \* number of Chroma.from_documents calls that returned

vars == <<pc, provider, task, env, tools_used, tool_outputs, transcript_query,
          llm_prompt, llm_calls, output_text, outcome,
          hpc, caught, db_added, db_rows, response, peer,
          _vectorstore, _initialized, threads, files, builds>>

\* what generate_forecast does not touch: its caller and the other request
caller == <<hpc, caught, db_added, db_rows, response, peer>>

\* the retrieval index of the transcript tool and the calls that initialize it
store == <<_vectorstore, _initialized, threads, files, builds>>

\* the variables of one /forecast request
request == <<pc, provider, task, env, tools_used, tool_outputs, transcript_query,
             llm_prompt, llm_calls, output_text, outcome,
             hpc, caught, db_added, db_rows, response, peer>>

Threads == {1, 2}

\* initialize_vectorstore's default argument, and a second directory
DefaultDir == "data/transcripts"
Dirs == {DefaultDir, "data/archive"}

\* a directory is absent, holds no transcript, or holds .txt or only .pdf files
DirStates == {"missing", "empty", "txt", "pdf"}

\* Python None where a vector store is expected
None == [dir |-> "", build |-> 0]

\* the module globals at the start of a call
Globals(flag, vs, n) == [init |-> flag, store |-> vs, builds |-> n]

\* a thread outside initialize_vectorstore that may call it budget times
Waiting(via, budget) ==
    [pc |-> "idle", via |-> via, budget |-> budget, calls |-> 0, dir |-> "",
     documents |-> FALSE, loaded |-> FALSE, value |-> None, got |-> None,
     began |-> Globals(FALSE, None, 0)]

\* the module as imported, with no caller of initialize_vectorstore
StoreIdle ==
    /\ _vectorstore = None
    /\ _initialized = FALSE
    /\ threads = [t \in Threads |-> Waiting("direct", 0)]
    /\ files = [d \in Dirs |-> "missing"]
    /\ builds = 0

-----------------------------------------------------------------------------
(* Python str primitives *)

Char(s, i) == IF i >= 1 /\ i <= Len(s) THEN SubSeq(s, i, i) ELSE ""

\* s[a-1:b] for 1-based inclusive a..b, clamped as Python slices are
Slice(s, a, b) ==
    LET lo == IF a < 1 THEN 1 ELSE a
        hi == IF b > Len(s) THEN Len(s) ELSE b
    IN IF lo > hi THEN "" ELSE SubSeq(s, lo, hi)

\* first index in lo..hi whose character is in cs; hi+1 when there is none
RECURSIVE FirstIn(_, _, _, _)
FirstIn(s, cs, lo, hi) ==
    IF lo > hi THEN hi + 1
    ELSE IF lo = hi THEN (IF Char(s, lo) \in cs THEN lo ELSE hi + 1)
    ELSE LET mid == (lo + hi) \div 2
             l == FirstIn(s, cs, lo, mid)
         IN IF l <= mid THEN l ELSE FirstIn(s, cs, mid + 1, hi)

\* first index in lo..hi whose character is not in cs; hi+1 when there is none
RECURSIVE FirstNotIn(_, _, _, _)
FirstNotIn(s, cs, lo, hi) ==
    IF lo > hi THEN hi + 1
    ELSE IF lo = hi THEN (IF Char(s, lo) \notin cs THEN lo ELSE hi + 1)
    ELSE LET mid == (lo + hi) \div 2
             l == FirstNotIn(s, cs, lo, mid)
         IN IF l <= mid THEN l ELSE FirstNotIn(s, cs, mid + 1, hi)

\* last index in lo..hi whose character is in cs; lo-1 when there is none
RECURSIVE LastIn(_, _, _, _)
LastIn(s, cs, lo, hi) ==
    IF lo > hi THEN lo - 1
    ELSE IF lo = hi THEN (IF Char(s, lo) \in cs THEN lo ELSE lo - 1)
    ELSE LET mid == (lo + hi) \div 2
             r == LastIn(s, cs, mid + 1, hi)
         IN IF r > mid THEN r ELSE LastIn(s, cs, lo, mid)

\* last index in lo..hi whose character is not in cs; lo-1 when there is none
RECURSIVE LastNotIn(_, _, _, _)
LastNotIn(s, cs, lo, hi) ==
    IF lo > hi THEN lo - 1
    ELSE IF lo = hi THEN (IF Char(s, lo) \notin cs THEN lo ELSE lo - 1)
    ELSE LET mid == (lo + hi) \div 2
             r == LastNotIn(s, cs, mid + 1, hi)
         IN IF r > mid THEN r ELSE LastNotIn(s, cs, lo, mid)

\* str.find(sub, lo-1) + 1 over 1-based indices; Len(s)+1 when absent
RECURSIVE FindSub(_, _, _)
FindSub(s, sub, lo) ==
    LET p == FirstIn(s, {Char(sub, 1)}, lo, Len(s))
    IN IF p > Len(s) THEN Len(s) + 1
       ELSE IF Slice(s, p, p + Len(sub) - 1) = sub THEN p
       ELSE FindSub(s, sub, p + 1)

\* Python's "sub in s"
Contains(s, sub) == sub = "" \/ FindSub(s, sub, 1) <= Len(s)

\* characters str.isspace() accepts, which str.strip() removes and which the
\* regular expression class \s matches
PyWhitespace == {" ", "\t", "\n", "\r", "\f"}

\* str.strip()
strip(s) ==
    LET a == FirstNotIn(s, PyWhitespace, 1, Len(s))
        b == LastNotIn(s, PyWhitespace, 1, Len(s))
    IN Slice(s, a, b)

UpperLetters == "ABCDEFGHIJKLMNOPQRSTUVWXYZ"
LowerLetters == "abcdefghijklmnopqrstuvwxyz"

LowerChar(c) ==
    LET k == FirstIn(UpperLetters, {c}, 1, Len(UpperLetters))
    IN IF c # "" /\ k <= Len(UpperLetters) THEN Char(LowerLetters, k) ELSE c

\* str.lower()
RECURSIVE lower(_)
lower(s) ==
    IF Len(s) <= 1 THEN LowerChar(s)
    ELSE LET mid == Len(s) \div 2
         IN lower(SubSeq(s, 1, mid)) \o lower(SubSeq(s, mid + 1, Len(s)))

-----------------------------------------------------------------------------
(* JSON values, json.loads and json.dumps *)

\* A parsed JSON value. t is the kind; s holds a string's characters, a
\* number's lexeme or a literal's name; keys/vals hold an object's members in
\* insertion order (a dict), vals alone an array's items (a list).
Val(t, s, keys, vals) == [t |-> t, s |-> s, keys |-> keys, vals |-> vals]
Str(s)  == Val("str", s, <<>>, <<>>)
Num(s)  == Val("num", s, <<>>, <<>>)
Lit(s)  == Val("lit", s, <<>>, <<>>)
Arr(vs) == Val("arr", "", <<>>, vs)
Obj(ks, vs) == Val("obj", "", ks, vs)

\* a scan result: ok, the value, and the index after it
Scanned(v, e) == [ok |-> TRUE, v |-> v, end |-> e]
ScanFail == [ok |-> FALSE, v |-> Lit("null"), end |-> 0]

\* json.decoder.WHITESPACE
JsonWhitespace == {" ", "\t", "\n", "\r"}
Digits == {"0", "1", "2", "3", "4", "5", "6", "7", "8", "9"}
\* characters below 0x20, which a strict JSON string may not contain
ControlChars == {"\t", "\n", "\r", "\f"}

SkipWs(s, i) == FirstNotIn(s, JsonWhitespace, i, Len(s))

\* json.decoder.BACKSLASH.  The escapes \b and \uXXXX denote characters that
\* the strings of this module do not contain; no input below uses them.
Unescape(c) ==
    CASE c = "\"" -> "\""
      [] c = "\\" -> "\\"
      [] c = "/"  -> "/"
      [] c = "f"  -> "\f"
      [] c = "n"  -> "\n"
      [] c = "r"  -> "\r"
      [] c = "t"  -> "\t"
      [] OTHER    -> ""

\* json.decoder.py_scanstring(s, i, strict=True): i is the index after the
\* opening quote (or after the last escape), acc the characters decoded so
\* far.  ScanChunk continues at the terminator t that STRINGCHUNK found.
RECURSIVE scanstring(_, _, _), ScanChunk(_, _, _, _)
scanstring(s, i, acc) ==
    ScanChunk(s, i, acc, FirstIn(s, {"\"", "\\"} \cup ControlChars, i, Len(s)))

ScanChunk(s, i, acc, t) ==
    IF t > Len(s) THEN ScanFail                        \* unterminated string
    ELSE IF Char(s, t) = "\"" THEN Scanned(Str(acc \o Slice(s, i, t - 1)), t + 1)
    ELSE IF Char(s, t) # "\\" THEN ScanFail            \* invalid control character
    ELSE IF Unescape(Char(s, t + 1)) = "" THEN ScanFail     \* invalid \escape
    ELSE scanstring(s, t + 2, acc \o Slice(s, i, t - 1) \o Unescape(Char(s, t + 1)))

\* json.scanner.NUMBER_RE, (-?(?:0|[1-9]\d*))(\.\d+)?([eE][-+]?\d+)? , matched
\* at i, group by group: each gives the index after what it matched, 0 when
\* the integer part does not match.
\* the integer part with its digits starting at a
IntEnd(s, a) ==
    IF Char(s, a) = "0" THEN a + 1
    ELSE IF Char(s, a) \in Digits THEN FirstNotIn(s, Digits, a + 1, Len(s))
    ELSE 0

\* the optional fraction after the integer part that ended at e
FracEnd(s, e) ==
    IF e # 0 /\ Char(s, e) = "." /\ Char(s, e + 1) \in Digits
    THEN FirstNotIn(s, Digits, e + 1, Len(s))
    ELSE e

\* the digits of an exponent starting at k, after a mantissa that ended at e
ExpDigitsEnd(s, e, k) ==
    IF Char(s, k) \in Digits THEN FirstNotIn(s, Digits, k, Len(s)) ELSE e

\* the optional exponent after the mantissa that ended at e
ExpEnd(s, e) ==
    IF e # 0 /\ Char(s, e) \in {"e", "E"}
    THEN ExpDigitsEnd(s, e, IF Char(s, e + 1) \in {"+", "-"} THEN e + 2 ELSE e + 1)
    ELSE e

NumberEnd(s, i) ==
    ExpEnd(s, FracEnd(s, IntEnd(s, IF Char(s, i) = "-" THEN i + 1 ELSE i)))

\* dict(pairs): a repeated key keeps its first position and takes the last value
PutPair(keys, vals, k, v) ==
    IF \E n \in 1..Len(keys) : keys[n] = k
    THEN [keys |-> keys,
          vals |-> [n \in 1..Len(vals) |-> IF keys[n] = k THEN v ELSE vals[n]]]
    ELSE [keys |-> Append(keys, k), vals |-> Append(vals, v)]

RECURSIVE scan_once(_, _), ScanAt(_, _, _), JSONObject(_, _), ObjectMembers(_, _, _, _),
          AfterKey(_, _, _, _), AfterColon(_, _, _, _, _), AfterValue(_, _, _, _, _),
          AfterMember(_, _, _), NextKey(_, _, _), JSONArray(_, _), ArrayItems(_, _, _),
          AfterItem(_, _, _), AfterItemSep(_, _, _)

\* a number or one of NaN, Infinity, -Infinity at i, n being NumberEnd(s, i)
NumberOrConstant(s, i, n) ==
    IF n # 0 THEN Scanned(Num(Slice(s, i, n - 1)), n)
    ELSE IF Slice(s, i, i + 2) = "NaN" THEN Scanned(Num("NaN"), i + 3)
    ELSE IF Slice(s, i, i + 7) = "Infinity" THEN Scanned(Num("Infinity"), i + 8)
    ELSE IF Slice(s, i, i + 8) = "-Infinity" THEN Scanned(Num("-Infinity"), i + 9)
    ELSE ScanFail

\* json.scanner.py_make_scanner._scan_once(s, i); ScanAt has nextchar = s[i]
scan_once(s, i) == ScanAt(s, i, Char(s, i))

ScanAt(s, i, c) ==
    IF c = "" THEN ScanFail
    ELSE IF c = "\"" THEN scanstring(s, i + 1, "")
    ELSE IF c = "{" THEN JSONObject(s, i + 1)
    ELSE IF c = "[" THEN JSONArray(s, i + 1)
    ELSE IF c = "n" /\ Slice(s, i, i + 3) = "null" THEN Scanned(Lit("null"), i + 4)
    ELSE IF c = "t" /\ Slice(s, i, i + 3) = "true" THEN Scanned(Lit("true"), i + 4)
    ELSE IF c = "f" /\ Slice(s, i, i + 4) = "false" THEN Scanned(Lit("false"), i + 5)
    ELSE NumberOrConstant(s, i, NumberEnd(s, i))

\* json.decoder.JSONObject: i is the index after "{"
ObjectStart(s, j) ==
    IF Char(s, j) = "}" THEN Scanned(Obj(<<>>, <<>>), j + 1)
    ELSE IF Char(s, j) = "\"" THEN ObjectMembers(s, j, <<>>, <<>>)
    ELSE ScanFail

JSONObject(s, i) == ObjectStart(s, SkipWs(s, i))

\* the loop of JSONObject, statement by statement.  i is the index of the
\* opening quote of the next key; keys, vals are the pairs read so far.
ObjectMembers(s, i, keys, vals) == AfterKey(s, keys, vals, scanstring(s, i + 1, ""))

\* key is the scanned key: skip whitespace to the colon
AfterKey(s, keys, vals, key) ==
    IF ~key.ok THEN ScanFail
    ELSE AfterColon(s, keys, vals, key.v.s, SkipWs(s, key.end))

\* colon is where the ":" must be: scan the value after it
AfterColon(s, keys, vals, k, colon) ==
    IF Char(s, colon) # ":" THEN ScanFail
    ELSE AfterValue(s, keys, vals, k, scan_once(s, SkipWs(s, colon + 1)))

\* val is the scanned value: add the pair, skip whitespace to the separator
AfterValue(s, keys, vals, k, val) ==
    IF ~val.ok THEN ScanFail
    ELSE AfterMember(s, PutPair(keys, vals, k, val.v), SkipWs(s, val.end))

\* sep is where "}" or "," must be
AfterMember(s, pairs, sep) ==
    IF Char(s, sep) = "}" THEN Scanned(Obj(pairs.keys, pairs.vals), sep + 1)
    ELSE IF Char(s, sep) # "," THEN ScanFail
    ELSE NextKey(s, pairs, SkipWs(s, sep + 1))

\* next is where the quote of the next key must be
NextKey(s, pairs, next) ==
    IF Char(s, next) # "\"" THEN ScanFail
    ELSE ObjectMembers(s, next, pairs.keys, pairs.vals)

\* json.decoder.JSONArray: i is the index after "["
ArrayStart(s, j) ==
    IF Char(s, j) = "]" THEN Scanned(Arr(<<>>), j + 1) ELSE ArrayItems(s, j, <<>>)

JSONArray(s, i) == ArrayStart(s, SkipWs(s, i))

\* the loop of JSONArray: i is the index where the next item starts
ArrayItems(s, i, vals) == AfterItem(s, vals, scan_once(s, i))

AfterItem(s, vals, val) ==
    IF ~val.ok THEN ScanFail
    ELSE AfterItemSep(s, Append(vals, val.v), SkipWs(s, val.end))

AfterItemSep(s, vals, sep) ==
    IF Char(s, sep) = "]" THEN Scanned(Arr(vals), sep + 1)
    ELSE IF Char(s, sep) # "," THEN ScanFail
    ELSE ArrayItems(s, SkipWs(s, sep + 1), vals)

\* JSONDecoder.decode after raw_decode gave r: only whitespace may follow
Decoded(s, r) ==
    IF ~r.ok THEN ScanFail
    ELSE IF SkipWs(s, r.end) <= Len(s) THEN ScanFail      \* extra data
    ELSE r

\* json.loads(s). ok = FALSE stands for JSONDecodeError.
json_loads(s) == Decoded(s, scan_once(s, SkipWs(s, 1)))

\* json.encoder.ESCAPE_DCT applied to one character
EscapeChar(c) ==
    CASE c = "\"" -> "\\\""
      [] c = "\\" -> "\\\\"
      [] c = "\n" -> "\\n"
      [] c = "\r" -> "\\r"
      [] c = "\t" -> "\\t"
      [] c = "\f" -> "\\f"
      [] OTHER    -> c

\* json.encoder.py_encode_basestring_ascii without the surrounding quotes
RECURSIVE Escape(_)
Escape(s) ==
    IF Len(s) <= 1 THEN EscapeChar(s)
    ELSE LET mid == Len(s) \div 2
         IN Escape(SubSeq(s, 1, mid)) \o Escape(SubSeq(s, mid + 1, Len(s)))

\* json.dumps(v) with the default separators ", " and ": "
RECURSIVE json_dumps(_), DumpItems(_, _), DumpMembers(_, _, _)
json_dumps(v) ==
    CASE v.t = "str" -> "\"" \o Escape(v.s) \o "\""
      [] v.t = "num" -> v.s
      [] v.t = "lit" -> v.s
      [] v.t = "arr" -> "[" \o DumpItems(v.vals, 1) \o "]"
      [] v.t = "obj" -> "{" \o DumpMembers(v.keys, v.vals, 1) \o "}"

DumpItems(vals, n) ==
    IF n > Len(vals) THEN ""
    ELSE (IF n > 1 THEN ", " ELSE "") \o json_dumps(vals[n]) \o DumpItems(vals, n + 1)

DumpMembers(keys, vals, n) ==
    IF n > Len(keys) THEN ""
    ELSE (IF n > 1 THEN ", " ELSE "") \o "\"" \o Escape(keys[n]) \o "\": "
         \o json_dumps(vals[n]) \o DumpMembers(keys, vals, n + 1)

-----------------------------------------------------------------------------
(* Output recovery: ForecastOrchestrator._extract_json *)

\* one backtick character (a string literal cannot hold a lone backtick)
Backtick == SubSeq("`'", 1, 1)
\* the three backticks of a fenced code block
Fence == Backtick \o Backtick \o Backtick

\* the result of re.search: whether it matched, and group(1)
Match(g) == [found |-> TRUE, group |-> g]
NoMatch == [found |-> FALSE, group |-> ""]

\* whether  \}\s*```  matches at e
ClosesFence(text, e) ==
    LET r == FirstNotIn(text, PyWhitespace, e + 1, Len(text))
    IN Char(text, e) = "}" /\ Slice(text, r, r + Len(Fence) - 1) = Fence

\* the end of the lazy  .*?\}\s*```  : the first "}" at or after i that closes
\* the fence; 0 when there is none.  LazyFenceEndAt tries the "}" at e.
RECURSIVE LazyFenceEnd(_, _), LazyFenceEndAt(_, _)
LazyFenceEnd(text, i) == LazyFenceEndAt(text, FirstIn(text, {"}"}, i, Len(text)))

LazyFenceEndAt(text, e) ==
    IF e > Len(text) THEN 0
    ELSE IF ClosesFence(text, e) THEN e
    ELSE LazyFenceEnd(text, e + 1)

\* re.search(opener + r'\s*(\{.*?\})\s*```', text, re.DOTALL), scanning for the
\* leftmost start at or after index from.  FencedAt tries the opener at p,
\* FencedGroup the group at q after the opener's whitespace, FencedCapture
\* takes the group ending at e.
RECURSIVE FencedSearch(_, _, _), FencedAt(_, _, _), FencedGroup(_, _, _, _),
          FencedCapture(_, _, _, _, _)
FencedSearch(text, opener, from) == FencedAt(text, opener, FindSub(text, opener, from))

FencedAt(text, opener, p) ==
    IF p > Len(text) THEN NoMatch
    ELSE FencedGroup(text, opener, p,
                     FirstNotIn(text, PyWhitespace, p + Len(opener), Len(text)))

FencedGroup(text, opener, p, q) ==
    IF Char(text, q) = "{"
    THEN FencedCapture(text, opener, p, q, LazyFenceEnd(text, q + 1))
    ELSE FencedSearch(text, opener, p + 1)

FencedCapture(text, opener, p, q, e) ==
    IF e # 0 THEN Match(Slice(text, q, e)) ELSE FencedSearch(text, opener, p + 1)

\* the end of  [^{}]*(?:\{[^{}]*\}[^{}]*)*\}  from index i, inside a nested
\* group or not; 0 when it does not match.  BalancedAt meets the brace at b.
RECURSIVE BalancedEnd(_, _, _), BalancedAt(_, _, _)
BalancedEnd(text, i, nested) ==
    BalancedAt(text, nested, FirstIn(text, {"{", "}"}, i, Len(text)))

BalancedAt(text, nested, b) ==
    IF b > Len(text) THEN 0
    ELSE IF nested THEN (IF Char(text, b) = "}" THEN BalancedEnd(text, b + 1, FALSE) ELSE 0)
    ELSE IF Char(text, b) = "}" THEN b
    ELSE BalancedEnd(text, b + 1, TRUE)

\* re.search(r'(\{[^{}]*(?:\{[^{}]*\}[^{}]*)*\})', text, re.DOTALL).
\* BalancedFrom tries the "{" at p, BalancedCapture takes the match ending at e.
RECURSIVE BalancedSearch(_, _), BalancedFrom(_, _), BalancedCapture(_, _, _)
BalancedSearch(text, from) == BalancedFrom(text, FirstIn(text, {"{"}, from, Len(text)))

BalancedFrom(text, p) ==
    IF p > Len(text) THEN NoMatch
    ELSE BalancedCapture(text, p, BalancedEnd(text, p + 1, FALSE))

BalancedCapture(text, p, e) ==
    IF e # 0 THEN Match(Slice(text, p, e)) ELSE BalancedSearch(text, p + 1)

\* a variant with the pattern list in the opposite order
PatternSearchReversed(text, n) ==
    CASE n = 1 -> BalancedSearch(text, 1)
      [] n = 2 -> FencedSearch(text, Fence, 1)
      [] n = 3 -> FencedSearch(text, Fence \o "json", 1)

\* re.search(json_patterns[n-1], text, re.DOTALL)
PatternSearch(text, n) ==
    CASE n = 1 -> FencedSearch(text, Fence \o "json", 1)
      [] n = 2 -> FencedSearch(text, Fence, 1)
      [] n = 3 -> BalancedSearch(text, 1)

\* the for loop over json_patterns from pattern n on: the first pattern whose
\* match parses; a match that does not parse is skipped (except: continue).
\* TryMatch has the match m of pattern n, TryParsed the parse r of its group.
\* a variant that gives up when a captured span does not parse
TryParsedAborting(text, n, r) == IF r.ok THEN r ELSE ScanFail

RECURSIVE TryPatterns(_, _), TryMatch(_, _, _), TryParsed(_, _, _)
TryPatterns(text, n) ==
    IF n > 3 THEN ScanFail ELSE TryMatch(text, n, PatternSearch(text, n))

TryMatch(text, n, m) ==
    IF m.found THEN TryParsed(text, n, json_loads(m.group))
    ELSE TryPatterns(text, n + 1)

TryParsed(text, n, r) == IF r.ok THEN r ELSE TryPatterns(text, n + 1)

\* the last resort: text[text.find('{') : text.rfind('}') + 1]
OuterBraces(text) ==
    LET start == FirstIn(text, {"{"}, 1, Len(text))
        end == LastIn(text, {"}"}, 1, Len(text))
    IN IF start <= Len(text) /\ end >= 1
       THEN json_loads(Slice(text, start, end))
       ELSE ScanFail

AnalysisLimit == 200
ForecastLimit == 500

\* text[:n] if len(text) > n else text
Truncated(text, n) == IF Len(text) > n THEN SubSeq(text, 1, n) ELSE text

\* a variant with the two limits exchanged
FallbackRecordSwapped(text) ==
    Obj(<<"summary", "financial_trends", "management_outlook",
          "risks_and_opportunities", "quarterly_forecast", "confidence_level",
          "data_sources_used">>,
        <<Str("Analysis completed. Check logs for full details."),
          Arr(<<Obj(<<"metric", "trend", "percentage_change", "analysis">>,
                    <<Str("General Analysis"), Str("stable"), Num("0.0"),
                      Str(Truncated(text, ForecastLimit))>>)>>),
          Obj(<<"sentiment", "key_statements", "strategic_focus">>,
              <<Str("neutral"), Arr(<<Str("See raw output for details")>>),
                Arr(<<Str("Multiple areas")>>)>>),
          Arr(<<Obj(<<"type", "description", "potential_impact">>,
                    <<Str("opportunity"), Str("Analysis in progress"),
                      Str("medium")>>)>>),
          Str(Truncated(text, AnalysisLimit)),
          Str("medium"),
          Arr(<<Str("analysis_tools")>>)>>)

\* the minimal valid structure built when nothing parses
FallbackRecord(text) ==
    Obj(<<"summary", "financial_trends", "management_outlook",
          "risks_and_opportunities", "quarterly_forecast", "confidence_level",
          "data_sources_used">>,
        <<Str("Analysis completed. Check logs for full details."),
          Arr(<<Obj(<<"metric", "trend", "percentage_change", "analysis">>,
                    <<Str("General Analysis"), Str("stable"), Num("0.0"),
                      Str(Truncated(text, AnalysisLimit))>>)>>),
          Obj(<<"sentiment", "key_statements", "strategic_focus">>,
              <<Str("neutral"), Arr(<<Str("See raw output for details")>>),
                Arr(<<Str("Multiple areas")>>)>>),
          Arr(<<Obj(<<"type", "description", "potential_impact">>,
                    <<Str("opportunity"), Str("Analysis in progress"),
                      Str("medium")>>)>>),
          Str(Truncated(text, ForecastLimit)),
          Str("medium"),
          Arr(<<Str("analysis_tools")>>)>>)

\* json.loads(text.strip()) of the try block
DirectParse(text) == json_loads(strip(text))

\* a variant that never uses the outermost braces
AfterOuterSkipped(text, outer) == FallbackRecord(text)

\* after the last resort gave outer: its value, else the fallback
AfterOuter(text, outer) == IF outer.ok THEN outer.v ELSE FallbackRecord(text)

\* after the pattern loop gave found: its value, else the last resort
AfterPatterns(text, found) ==
    IF found.ok THEN found.v ELSE AfterOuter(text, OuterBraces(text))

\* used by that variant: found is the pattern loop's result
AfterDirectFound(text, direct, found) ==
    IF found.ok THEN found.v
    ELSE IF direct.ok THEN direct.v
    ELSE AfterOuter(text, OuterBraces(text))

\* a variant that consults the patterns before the whole-text parse
AfterDirectPatternsFirst(text, direct) ==
    AfterDirectFound(text, direct, TryPatterns(text, 1))

\* after the try block gave direct: its value, else (except
\* json.JSONDecodeError) the pattern loop
AfterDirect(text, direct) ==
    IF direct.ok THEN direct.v ELSE AfterPatterns(text, TryPatterns(text, 1))

\* ForecastOrchestrator._extract_json(text)
_extract_json(text) == AfterDirect(text, DirectParse(text))

-----------------------------------------------------------------------------
(* The tool adapters *)

\* What one collaborator call of a request meets.
\*   adapter  "repo": the function of tools/*.py;  "raising": a callable bound
\*            to the adapter's name that raises (the interface the orchestrator
\*            guards with try/except);  "llm": self.llm;  "pending": not called
\*   fault    the message of the exception raised ("" for none): inside the
\*            try block of a repo adapter, or by a raising callable or the llm
\*   has_data documents were loaded / the vector store exists / HTTP status is
\*            200 / the llm response has a content attribute
\*   reply    the text produced by the adapter's own chain, the HTTP status
\*            code of a failed fetch, or the llm's text
Met(adapter, fault, has_data, reply) ==
    [adapter |-> adapter, fault |-> fault, has_data |-> has_data, reply |-> reply]
Pending == Met("pending", "", FALSE, "")

\* what a call gives its caller
Return(text) == [kind |-> "return", text |-> text]
Raise(msg)   == [kind |-> "raise", text |-> msg]

\* indent * level, for json.dumps(..., indent=2)
RECURSIVE Indent(_)
Indent(level) == IF level = 0 THEN "" ELSE "  " \o Indent(level - 1)

\* json.dumps(v, indent=2)
RECURSIVE json_dumps_indent(_, _), DumpItemsIndent(_, _, _), DumpMembersIndent(_, _, _, _)
json_dumps_indent(v, level) ==
    CASE v.t = "arr" /\ v.vals # <<>> ->
            "[\n" \o DumpItemsIndent(v.vals, 1, level + 1) \o "\n" \o Indent(level) \o "]"
      [] v.t = "obj" /\ v.keys # <<>> ->
            "{\n" \o DumpMembersIndent(v.keys, v.vals, 1, level + 1) \o "\n"
            \o Indent(level) \o "}"
      [] OTHER -> json_dumps(v)

DumpItemsIndent(vals, n, level) ==
    IF n > Len(vals) THEN ""
    ELSE (IF n > 1 THEN ",\n" ELSE "") \o Indent(level)
         \o json_dumps_indent(vals[n], level) \o DumpItemsIndent(vals, n + 1, level)

DumpMembersIndent(keys, vals, n, level) ==
    IF n > Len(keys) THEN ""
    ELSE (IF n > 1 THEN ",\n" ELSE "") \o Indent(level) \o "\"" \o Escape(keys[n])
         \o "\": " \o json_dumps_indent(vals[n], level)
         \o DumpMembersIndent(keys, vals, n + 1, level)

\* json.dumps({"error": msg})
ErrorJson(msg) == json_dumps(Obj(<<"error">>, <<Str(msg)>>))

\* re.search(r'\{.*\}', result, re.DOTALL): the first "{" to the last "}"
GreedyBraces(result) ==
    LET start == FirstIn(result, {"{"}, 1, Len(result))
        end == LastIn(result, {"}"}, 1, Len(result))
    IN IF start <= Len(result) /\ end > start
       THEN Match(Slice(result, start, end))
       ELSE NoMatch

\* type(v).__name__ of a parsed JSON value that is not a dict
PyTypeName(v) ==
    CASE v.t = "str" -> "str"
      [] v.t = "arr" -> "list"
      [] v.t = "lit" /\ v.s = "null" -> "NoneType"
      [] v.t = "lit" -> "bool"
      [] v.t = "num" ->
            IF \E n \in 1..Len(v.s) : Char(v.s, n) \in {".", "e", "E", "N", "I"}
            THEN "float" ELSE "int"
      [] OTHER -> "dict"

\* extract_financial_data after the chain gave its result: parsed is
\* json.loads(result.strip())
FinancialResult(result, parsed) ==
    IF parsed.ok /\ parsed.v.t = "obj" THEN json_dumps_indent(parsed.v, 0)
    ELSE IF parsed.ok
    THEN ErrorJson("'" \o PyTypeName(parsed.v) \o "' object has no attribute 'get'")
    ELSE IF GreedyBraces(result).found THEN GreedyBraces(result).group
    ELSE json_dumps(Obj(<<"error", "raw">>,
                        <<Str("Failed to parse LLM output"), Str(result)>>))

\* tools/financial_extractor.py extract_financial_data, by what the call met
extract_financial_data(met) ==
    IF met.fault # "" THEN ErrorJson(met.fault)
    ELSE IF ~met.has_data THEN ErrorJson("No documents loaded")
    ELSE FinancialResult(met.reply, json_loads(strip(met.reply)))

\* analyze_transcripts after the chain gave its result: parsed is
\* json.loads(result)
TranscriptResult(query, result, parsed) ==
    IF parsed.ok THEN json_dumps_indent(parsed.v, 0)
    ELSE json_dumps_indent(Obj(<<"query", "analysis", "source">>,
                               <<Str(query), Str(result),
                                 Str("earnings_transcripts")>>), 0)

\* tools/qualitative_analysis.py analyze_transcripts(query), by what the call met
analyze_transcripts(query, met) ==
    IF met.fault # "" THEN ErrorJson(met.fault)
    ELSE IF ~met.has_data
    THEN json_dumps(Obj(<<"error", "suggestion">>,
                        <<Str("No transcripts loaded"),
                          Str("Add transcript files to data/transcripts/")>>))
    ELSE TranscriptResult(query, met.reply, json_loads(met.reply))

\* tools/market_data.py fetch_market_data(symbol), by what the call met.  On
\* status 200 the chart's meta holds regularMarketPrice (met.reply, a number's
\* lexeme) and nothing else, so no change is computed.
fetch_market_data(symbol, met) ==
    IF met.fault # ""
    THEN json_dumps(Obj(<<"error", "symbol", "note">>,
                        <<Str(met.fault), Str(symbol), Str("Market data unavailable")>>))
    ELSE IF met.has_data
    THEN json_dumps_indent(
            Obj(<<"symbol", "current_price", "previous_close", "currency",
                  "exchange", "timestamp", "day_range">>,
                <<Str(symbol), Num(met.reply), Lit("null"), Lit("null"),
                  Lit("null"), Lit("null"),
                  Obj(<<"low", "high">>, <<Lit("null"), Lit("null")>>)>>), 0)
    ELSE json_dumps(Obj(<<"error", "symbol">>,
                        <<Str("Failed to fetch data: " \o met.reply), Str(symbol)>>))

\* a variant in which an adapter lets the exception inside it escape
CallUncaught(met, text) ==
    IF met.adapter = "raising" \/ met.fault # "" THEN Raise(met.fault) ELSE Return(text)

\* the call of an adapter as the orchestrator sees it: the repository's
\* function returns its text; a raising callable raises its fault
Call(met, text) == IF met.adapter = "raising" THEN Raise(met.fault) ELSE Return(text)

-----------------------------------------------------------------------------
(* ForecastOrchestrator *)

\* the four query templates of _extract_transcript_query
AiQuery      == "What is management's outlook on AI and digital transformation?"
OutlookQuery == "What is management's forward-looking guidance and outlook?"
RiskQuery    == "What risks and challenges did management discuss?"
ThemesQuery  == "What are the key themes and strategic focus areas discussed by management?"

\* a variant that tests the outlook rule before the AI rule
QueryOutlookFirst(t) ==
    LET task_lower == lower(t)
    IN IF Contains(task_lower, "outlook") \/ Contains(task_lower, "forecast")
       THEN OutlookQuery
       ELSE IF Contains(task_lower, "ai") \/ Contains(task_lower, "artificial intelligence")
       THEN AiQuery
       ELSE IF Contains(task_lower, "risk")
       THEN RiskQuery
       ELSE ThemesQuery

\* a variant that matches the task as written, without lower()
QueryCaseSensitive(t) ==
    IF Contains(t, "ai") \/ Contains(t, "artificial intelligence")
    THEN AiQuery
    ELSE IF Contains(t, "outlook") \/ Contains(t, "forecast")
    THEN OutlookQuery
    ELSE IF Contains(t, "risk")
    THEN RiskQuery
    ELSE ThemesQuery

\* ForecastOrchestrator._extract_transcript_query(task)
_extract_transcript_query(t) ==
    LET task_lower == lower(t)
    IN IF Contains(task_lower, "ai") \/ Contains(task_lower, "artificial intelligence")
       THEN AiQuery
       ELSE IF Contains(task_lower, "outlook") \/ Contains(task_lower, "forecast")
       THEN OutlookQuery
       ELSE IF Contains(task_lower, "risk")
       THEN RiskQuery
       ELSE ThemesQuery

\* the identifiers appended to tools_used
FinancialId  == "financial_data_extractor"
TranscriptId == "qualitative_analysis"
MarketId     == "market_data"

\* a variant that gives up on the remaining tools after a failure
ToolStepSkipping(label, id, result, used, outputs, next) ==
    IF result.kind = "return"
    THEN [tools_used |-> Append(used, id),
          tool_outputs |-> Append(outputs, label \o ":\n" \o result.text),
          pc |-> next, error |-> ""]
    ELSE [tools_used |-> used,
          tool_outputs |-> Append(outputs, label \o ": Not available - " \o result.text),
          pc |-> "step4", error |-> ""]

\* a variant that leaves a failed tool out of the context
ToolStepNoPlaceholder(label, id, result, used, outputs, next) ==
    IF result.kind = "return"
    THEN [tools_used |-> Append(used, id),
          tool_outputs |-> Append(outputs, label \o ":\n" \o result.text),
          pc |-> next, error |-> ""]
    ELSE [tools_used |-> used, tool_outputs |-> outputs, pc |-> next, error |-> ""]

\* a variant without the except clause: the exception leaves the step
ToolStepPropagating(label, id, result, used, outputs, next) ==
    IF result.kind = "return"
    THEN [tools_used |-> Append(used, id),
          tool_outputs |-> Append(outputs, label \o ":\n" \o result.text),
          pc |-> next, error |-> ""]
    ELSE [tools_used |-> used, tool_outputs |-> outputs,
          pc |-> "raised", error |-> result.text]

\* the body of one tool step: try: append the labeled text and the identifier;
\* except Exception as e: append the placeholder and nothing to tools_used.
\* Either way control reaches the next step (next); error is the exception
\* that leaves the step, "" as every Exception is caught.
ToolStep(label, id, result, used, outputs, next) ==
    IF result.kind = "return"
    THEN [tools_used |-> Append(used, id),
          tool_outputs |-> Append(outputs, label \o ":\n" \o result.text),
          pc |-> next, error |-> ""]
    ELSE [tools_used |-> used,
          tool_outputs |-> Append(outputs, label \o ": Not available - " \o result.text),
          pc |-> next, error |-> ""]

\* "\n\n".join(tool_outputs)
RECURSIVE JoinBlocks(_, _)
JoinBlocks(outputs, n) ==
    IF n > Len(outputs) THEN ""
    ELSE (IF n > 1 THEN "\n\n" ELSE "") \o outputs[n] \o JoinBlocks(outputs, n + 1)

\* the values the f-string synthesis_prompt interpolates into its fixed text
SynthesisPrompt(t, outputs, used) ==
    [task |-> t,
     combined_data |-> JoinBlocks(outputs, 1),
     data_sources_used |-> json_dumps(Arr([n \in 1..Len(used) |-> Str(used[n])]))]
NoPrompt == [task |-> "", combined_data |-> "", data_sources_used |-> ""]

\* output_text from the response of self.llm.invoke: response.content for
\* openai; for ollama response.content if the response has one, else str(response)
OutputText(prov, met) ==
    IF met.fault # "" THEN Raise(met.fault)
    ELSE IF met.has_data THEN Return(met.reply)
    ELSE IF prov = "openai" THEN Raise("'str' object has no attribute 'content'")
    ELSE Return(met.reply)

\* what generate_forecast gives its caller
NoForecast == Val("none", "", <<>>, <<>>)
Running == [kind |-> "running", forecast |-> NoForecast, tools_used |-> <<>>,
            raw_output |-> "", error |-> ""]
\* a variant that returns the trimmed text as raw_output
ReturnedTrimmed(forecast, used, raw) ==
    [kind |-> "returned", forecast |-> forecast, tools_used |-> used,
     raw_output |-> strip(raw), error |-> ""]
\* return {"forecast": ..., "tools_used": ..., "raw_output": ...}
Returned(forecast, used, raw) ==
    [kind |-> "returned", forecast |-> forecast, tools_used |-> used,
     raw_output |-> raw, error |-> ""]
\* a variant that raises a new exception around the message
ReraisedWrapped(msg) ==
    [kind |-> "raised", forecast |-> NoForecast, tools_used |-> <<>>,
     raw_output |-> "", error |-> "Forecast generation failed: " \o msg]
\* except Exception as e: logger.error(...); raise
Reraised(msg) ==
    [kind |-> "raised", forecast |-> NoForecast, tools_used |-> <<>>,
     raw_output |-> "", error |-> msg]

-----------------------------------------------------------------------------
(* Inputs *)

Providers == {"openai", "ollama"}

\* the keywords of the query rules, and words that contain "ai" or none of them
Tasks ==
    { "",
      "Analyze AI-driven growth outlook for TCS",
      "Analyze the last 3 quarters and provide a forecast for Q4",
      "Q4 revenue OUTLOOK",
      "Outlook and risk",
      "Key risks this year",
      "Risk-adjusted Forecast",
      "Artificial Intelligence strategy",
      "artificial intelligence risk outlook",
      "Maintain margins",
      "Maintain outlook",
      "Summarize revenue",
      "ai",
      "A.I. revenue" }

\* replies of the extraction chain: a JSON object, one inside prose, a JSON
\* value that is no object, and text without JSON
FinancialReplies ==
    { "{\"quarter\": \"Q1\", \"year\": 2024}",
      "Here: {\"quarter\": \"Q2\"} done",
      "Here {bad} done",
      "[1]",
      "no numbers found" }

FinancialMet ==
    {Met("repo", "", TRUE, r) : r \in FinancialReplies}
    \cup {Met("repo", "", FALSE, ""),
          Met("repo", "connection refused", FALSE, ""),
          Met("raising", "reports unavailable", FALSE, "")}

TranscriptMet ==
    {Met("repo", "", TRUE, "{\"sentiment\": \"positive\"}"),
     Met("repo", "", TRUE, "Management is optimistic."),
     Met("repo", "", FALSE, ""),
     Met("repo", "embedding model missing", TRUE, ""),
     Met("raising", "index unavailable", FALSE, "")}

MarketMet ==
    {Met("repo", "", TRUE, "4100.5"),
     Met("repo", "", FALSE, "404"),
     Met("repo", "timed out", FALSE, ""),
     Met("raising", "network down", FALSE, "")}

\* a complete forecast as the model is asked to write it
SampleForecast ==
    Obj(<<"summary", "financial_trends", "management_outlook",
          "risks_and_opportunities", "quarterly_forecast", "confidence_level",
          "data_sources_used">>,
        <<Str("Growth continues."),
          Arr(<<Obj(<<"metric", "trend", "percentage_change", "analysis">>,
                    <<Str("Revenue"), Str("increasing"), Num("5.2"), Str("Up")>>)>>),
          Obj(<<"sentiment", "key_statements", "strategic_focus">>,
              <<Str("positive"), Arr(<<Str("Strong demand")>>), Arr(<<Str("AI")>>)>>),
          Arr(<<Obj(<<"type", "description", "potential_impact">>,
                    <<Str("risk"), Str("Attrition"), Str("low")>>)>>),
          Str("Revenue up 2%"),
          Str("high"),
          Arr(<<Str("financial_data_extractor")>>)>>)

Fenced(tag, body) == Fence \o tag \o "\n" \o body \o "\n" \o Fence

\* texts the synthesis model returns in the pipeline
LlmReplies ==
    { json_dumps(SampleForecast),
      "Sure, here you go:\n" \o Fenced("json", json_dumps(SampleForecast)),
      "I cannot comply.",
      "42" }

LlmMet ==
    {Met("llm", "", TRUE, r) : r \in LlmReplies}
    \cup {Met("llm", "", FALSE, "I cannot comply."),
          Met("llm", "model not found", FALSE, "")}

\* model outputs for output recovery --------------------------------------

MaxParts == 3
MaxPad == 1
MaxOver == 1

SmallObject == "{\"summary\": \"ok\"}"
DeepObject  == "{\"summary\": {\"a\": {\"b\": 1}}}"
\* an object no pattern captures whole: a string in it holds a brace
BraceInString == "{\"note\": \"{\"}"

\* pieces of model output: prose, whitespace, a quote, stray braces, bare
\* objects, malformed JSON, and fenced blocks (marked json around
\* a nested object, unmarked, malformed, and one without whitespace)
Segments ==
    { "Sure, here you go:\n", " ", "\"", "{", "}",
      SmallObject, DeepObject, BraceInString, "{bad}",
      Fenced("json", DeepObject),
      Fenced("", SmallObject),
      Fenced("json", "{bad}"),
      Fence \o "json{}" \o Fence }

\* every concatenation of at most n segments
RECURSIVE Compose(_)
Compose(n) ==
    IF n = 0 THEN {""}
    ELSE Compose(n - 1) \cup {t \o g : t \in Compose(n - 1), g \in Segments}

\* a forecast whose strings need escaping and quote a fenced block
QuotingForecast ==
    Obj(<<"summary", "financial_trends", "management_outlook",
          "risks_and_opportunities", "quarterly_forecast", "confidence_level",
          "data_sources_used">>,
        <<Str("He said \"up\"\nSee " \o Fence \o "json {} " \o Fence),
          Arr(<<>>),
          Obj(<<"sentiment", "key_statements", "strategic_focus">>,
              <<Str("neutral"), Arr(<<>>), Arr(<<Str("C:\\data {x}")>>)>>),
          Arr(<<>>),
          Str("}{"),
          Str("low"),
          Arr(<<>>)>>)

Records == {SampleForecast, QuotingForecast, FallbackRecord("I cannot comply.")}

\* n copies of c
RECURSIVE Repeat(_, _)
Repeat(c, n) ==
    IF n = 0 THEN ""
    ELSE Repeat(c, n \div 2) \o Repeat(c, n \div 2) \o (IF n % 2 = 1 THEN c ELSE "")

\* whitespace around a document: at most n copies of one whitespace character
Pads(n) == {Repeat(c, k) : c \in PyWhitespace, k \in 0..n}

Padding == Pads(MaxPad)

\* the serialisation of each record of Records
RecordTexts == [R \in Records |-> json_dumps(R)]

\* the serialisation of each record between any two paddings
PaddedTexts ==
    [R \in Records |-> {pre \o RecordTexts[R] \o post : pre \in Padding, post \in Padding}]

PaddedRecords == UNION {PaddedTexts[R] : R \in Records}

\* texts as long as the two limits of the fallback record, and a little
\* shorter and longer, without and with an unparsable brace in front
LongTexts ==
    {head \o Repeat("x", limit + d - Len(head)) :
        head \in {"", "{"}, limit \in {AnalysisLimit, ForecastLimit},
        d \in (0 - MaxOver)..MaxOver}

Texts ==
    Compose(MaxParts) \cup PaddedRecords \cup LongTexts
    \cup {"I cannot comply.", "42", "[]", "null", "{}", "\"text\"", "\f", "\n"}

-----------------------------------------------------------------------------
(* ForecastOrchestrator.generate_forecast, one action per step *)

\* a frame of generate_forecast: its argument, its locals and its position
Frame(at, t, e, used, outputs, query, prompt, calls, text, out) ==
    [pc |-> at, task |-> t, env |-> e, tools_used |-> used, tool_outputs |-> outputs,
     transcript_query |-> query, llm_prompt |-> prompt, llm_calls |-> calls,
     output_text |-> text, outcome |-> out]

NoEnv == [financial |-> Pending, transcripts |-> Pending, market |-> Pending,
          llm |-> Pending]

\* a call that has not run a statement yet
Entered(t) == Frame("step1", t, NoEnv, <<>>, <<>>, "", NoPrompt, 0, "", Running)

NoPeer == Frame("none", "", NoEnv, <<>>, <<>>, "", NoPrompt, 0, "", Running)

NoResponse == [status |-> "none", code |-> 0, detail |-> "", tools_used |-> <<>>,
               forecast |-> NoForecast, log_id |-> 0]

\* generate_forecast called on its own: no handler, no second request
NoCaller ==
    /\ hpc = "direct"
    /\ caught = ""
    /\ db_added = <<>>
    /\ db_rows = <<>>
    /\ response = NoResponse
    /\ peer = NoPeer

Init ==
    /\ pc = "step1"
    /\ provider \in Providers
    /\ task \in Tasks
    /\ env = [financial |-> Pending, transcripts |-> Pending, market |-> Pending,
              llm |-> Pending]
    /\ tools_used = <<>>
    /\ tool_outputs = <<>>
    /\ transcript_query = ""
    /\ llm_prompt = NoPrompt
    /\ llm_calls = 0
    /\ output_text = ""
    /\ outcome = Running
    /\ NoCaller
    /\ StoreIdle

\* what a tool step leaves behind
Apply(st) ==
    /\ tools_used' = st.tools_used
    /\ tool_outputs' = st.tool_outputs
    /\ pc' = st.pc
    /\ outcome' = IF st.pc = "raised" THEN Reraised(st.error) ELSE outcome

\* Step 1: Extract financial data
Step1Financial ==
    /\ pc = "step1"
    /\ \E met \in FinancialMet :
          /\ Apply(ToolStep("Financial Data", FinancialId,
                            Call(met, extract_financial_data(met)),
                            tools_used, tool_outputs, "step2"))
          /\ env' = [env EXCEPT !.financial = met]
    /\ UNCHANGED <<provider, task, transcript_query, llm_prompt, llm_calls, output_text>>
    /\ UNCHANGED caller
    /\ UNCHANGED store

\* Step 2: Analyze transcripts
Step2Transcripts ==
    /\ pc = "step2"
    /\ transcript_query' = _extract_transcript_query(task)
    /\ \E met \in TranscriptMet :
          /\ Apply(ToolStep("Transcript Analysis", TranscriptId,
                            Call(met, analyze_transcripts(transcript_query', met)),
                            tools_used, tool_outputs, "step3"))
          /\ env' = [env EXCEPT !.transcripts = met]
    /\ UNCHANGED <<provider, task, llm_prompt, llm_calls, output_text>>
    /\ UNCHANGED caller
    /\ UNCHANGED store

\* Step 3: Get market data
Step3Market ==
    /\ pc = "step3"
    /\ \E met \in MarketMet :
          /\ Apply(ToolStep("Market Data", MarketId,
                            Call(met, fetch_market_data("TCS.NS", met)),
                            tools_used, tool_outputs, "step4"))
          /\ env' = [env EXCEPT !.market = met]
    /\ UNCHANGED <<provider, task, transcript_query, llm_prompt, llm_calls, output_text>>
    /\ UNCHANGED caller
    /\ UNCHANGED store

\* a variant of step 4 that calls the model again after a first failure
Step4Retrying ==
    /\ pc = "step4"
    /\ llm_prompt' = SynthesisPrompt(task, tool_outputs, tools_used)
    /\ llm_calls' = llm_calls + 1
    /\ \E met \in LlmMet :
          LET out == OutputText(provider, met)
          IN /\ env' = [env EXCEPT !.llm = met]
             /\ IF out.kind = "return"
                THEN /\ output_text' = out.text
                     /\ pc' = "parse"
                     /\ outcome' = outcome
                ELSE /\ output_text' = output_text
                     /\ pc' = IF llm_calls = 0 THEN "step4" ELSE "raised"
                     /\ outcome' = IF llm_calls = 0 THEN outcome ELSE Reraised(out.text)
    /\ UNCHANGED <<provider, task, tools_used, tool_outputs, transcript_query>>
    /\ UNCHANGED caller
    /\ UNCHANGED store

\* Step 4: build synthesis_prompt, self.llm.invoke, take output_text; an
\* exception goes to the outer except, which logs and re-raises it
Step4Synthesize ==
    /\ pc = "step4"
    /\ llm_prompt' = SynthesisPrompt(task, tool_outputs, tools_used)
    /\ llm_calls' = llm_calls + 1
    /\ \E met \in LlmMet :
          LET out == OutputText(provider, met)
          IN /\ env' = [env EXCEPT !.llm = met]
             /\ IF out.kind = "return"
                THEN /\ output_text' = out.text
                     /\ pc' = "parse"
                     /\ outcome' = outcome
                ELSE /\ output_text' = output_text
                     /\ pc' = "raised"
                     /\ outcome' = Reraised(out.text)
    /\ UNCHANGED <<provider, task, tools_used, tool_outputs, transcript_query>>
    /\ UNCHANGED caller
    /\ UNCHANGED store

\* forecast_json = self._extract_json(output_text); return {...}
ParseOutput ==
    /\ pc = "parse"
    /\ outcome' = Returned(_extract_json(output_text), tools_used, output_text)
    /\ pc' = "returned"
    /\ UNCHANGED <<provider, task, env, tools_used, tool_outputs, transcript_query,
                   llm_prompt, llm_calls, output_text>>
    /\ UNCHANGED caller
    /\ UNCHANGED store

Next ==
    \/ Step1Financial
    \/ Step2Transcripts
    \/ Step3Market
    \/ Step4Synthesize
    \/ ParseOutput

Spec == Init /\ [][Next]_vars

\* control moves from a statement of generate_forecast to a later one, or
\* out of the method; every step of Next is such a move
Continue ==
    /\ pc \in {"step1", "step2", "step3", "step4", "parse"}
    /\ pc' \in {"step2", "step3", "step4", "parse", "returned", "raised"}

\* a call of generate_forecast runs to its end: no statement waits on
\* anything, so while the call has not returned or raised, control moves on
FairSpec == Spec /\ WF_pc(Continue)

\* Output recovery on its own: generate_forecast at the point where the model
\* has answered with any text of Texts (here after all three tools raised)
RecoveryOutputs ==
    <<"Financial Data: Not available - reports unavailable",
      "Transcript Analysis: Not available - index unavailable",
      "Market Data: Not available - network down">>

InitRecovery ==
    /\ pc = "parse"
    /\ provider = "ollama"
    /\ task = "Summarize revenue"
    /\ output_text \in Texts
    /\ env = [financial |-> Met("raising", "reports unavailable", FALSE, ""),
              transcripts |-> Met("raising", "index unavailable", FALSE, ""),
              market |-> Met("raising", "network down", FALSE, ""),
              llm |-> Met("llm", "", TRUE, output_text)]
    /\ tools_used = <<>>
    /\ tool_outputs = RecoveryOutputs
    /\ transcript_query = ThemesQuery
    /\ llm_prompt = SynthesisPrompt(task, tool_outputs, tools_used)
    /\ llm_calls = 1
    /\ outcome = Running
    /\ NoCaller
    /\ StoreIdle

SpecRecovery == InitRecovery /\ [][ParseOutput]_vars

-----------------------------------------------------------------------------
(* Properties of output recovery, checked under SpecRecovery *)

RequiredFields ==
    {"summary", "financial_trends", "management_outlook",
     "risks_and_opportunities", "quarterly_forecast", "confidence_level",
     "data_sources_used"}

HasField(v, name) == \E n \in 1..Len(v.keys) : v.keys[n] = name

Field(v, name) == v.vals[CHOOSE n \in 1..Len(v.keys) : v.keys[n] = name]

IsForecastRecord(v) ==
    v.t = "obj" /\ \A name \in RequiredFields : HasField(v, name)

\* C1: for every model output, whatever it is, recovery returns a forecast
\* record, an object carrying the seven fields of a forecast.
C1_AlwaysForecastRecord ==
    pc = "returned" => IsForecastRecord(outcome.forecast)

\* C2: when the model output is the JSON serialisation of a forecast record,
\* surrounded by any leading and trailing whitespace, recovery returns
\* exactly that record.
C2_RoundTrip ==
    pc = "returned" =>
        \A R \in Records : output_text \in PaddedTexts[R] => outcome.forecast = R

C2_Witness ==
    /\ pc = "returned"
    /\ output_text = "\n" \o RecordTexts[QuotingForecast] \o "\f"
    /\ outcome.forecast = QuotingForecast

\* positions of text where sub starts
Occurrences(text, sub) ==
    {p \in 1..Len(text) : Slice(text, p, p + Len(sub) - 1) = sub}

\* where the content of the block opened by the fence at p starts: after
\* the fence, its json mark if it has one, and optional whitespace
BlockStart(text, p) ==
    FirstNotIn(text, PyWhitespace,
               IF Slice(text, p + 3, p + 6) = "json" THEN p + 7 ELSE p + 3,
               Len(text))

\* the block opened by the fence at p holds, up to e, a valid JSON object,
\* and e is followed by optional whitespace and a closing fence
FencedObject(text, p, e) ==
    /\ BlockStart(text, p) < e
    /\ Char(text, BlockStart(text, p)) = "{"
    /\ ClosesFence(text, e)
    /\ json_loads(Slice(text, BlockStart(text, p), e)).ok

\* C3 as stated: whenever the model output embeds a valid JSON object in a
\* fenced code block, recovery returns the object parsed from that block.
C3_AnyFencedObject ==
    pc = "returned" =>
        \A p \in Occurrences(output_text, Fence) :
            \A e \in Occurrences(output_text, "}") :
                FencedObject(output_text, p, e)
                    => outcome.forecast
                           = json_loads(Slice(output_text, BlockStart(output_text, p), e)).v

\* the first fence of text, beyond its end when it has none
FirstFence(text) == FindSub(text, Fence, 1)

\* no closing brace of the block opened at p, before e, is itself followed
\* by optional whitespace and a fence
NoInnerClose(text, p, e) ==
    \A k \in BlockStart(text, p)..(e - 1) : ~ClosesFence(text, k)

\* C3: when the first fence of the model output (marked json, or unmarked
\* in an output without any json fence) opens a block holding a valid JSON
\* object in which no closing brace before the last is followed by
\* whitespace and a fence, and the output is not as a whole a JSON document,
\* recovery returns that object.
C3_FirstFencedObject ==
    pc = "returned" =>
        LET first == FirstFence(output_text)
        IN \A e \in Occurrences(output_text, "}") :
               /\ first < e
               /\ \/ Slice(output_text, first + 3, first + 6) = "json"
                  \/ ~Contains(output_text, Fence \o "json")
               /\ FencedObject(output_text, first, e)
               /\ NoInnerClose(output_text, first, e)
               /\ ~json_loads(strip(output_text)).ok
               => outcome.forecast
                      = json_loads(Slice(output_text, BlockStart(output_text, first), e)).v

C3_Witness ==
    /\ pc = "returned"
    /\ output_text = "Sure, here you go:\n" \o Fenced("json", DeepObject) \o Fenced("", SmallObject)
    /\ outcome.forecast = json_loads(DeepObject).v

\* the parse of the span a pattern match m captured, a failure without a match
Captured(m) == IF m.found THEN json_loads(m.group) ELSE ScanFail

\* pattern n captures a span of text that parses as JSON
Parses(text, n) == Captured(PatternSearch(text, n)).ok

\* the direct parse, the three patterns and the outermost braces all fail
NothingParses(text) ==
    /\ ~json_loads(strip(text)).ok
    /\ \A n \in 1..3 : ~Parses(text, n)
    /\ ~OuterBraces(text).ok

\* the first n characters of text, all of it when it is no longer than n
Prefix(text, n) == IF Len(text) <= n THEN text ELSE SubSeq(text, 1, n)

\* C10: when every parse attempt fails on output T, the result is the fixed
\* fallback record: the summary notice; one financial_trends entry with trend
\* "stable", percentage_change 0.0 and as analysis the first 200 characters
\* of T; a neutral management_outlook with the fixed statement and focus; one
\* risks_and_opportunities entry of type "opportunity" and impact "medium";
\* the first 500 characters of T as quarterly_forecast; confidence "medium";
\* data sources ["analysis_tools"].  For "I cannot comply." analysis and
\* quarterly_forecast are all of T.
C10_FallbackRecord ==
    pc = "returned" /\ NothingParses(output_text) =>
        /\ IsForecastRecord(outcome.forecast)
        /\ Len(outcome.forecast.keys) = 7
        /\ Field(outcome.forecast, "summary")
               = Str("Analysis completed. Check logs for full details.")
        /\ Field(outcome.forecast, "financial_trends") =
               Arr(<<Obj(<<"metric", "trend", "percentage_change", "analysis">>,
                         <<Str("General Analysis"), Str("stable"), Num("0.0"),
                           Str(Prefix(output_text, 200))>>)>>)
        /\ Field(outcome.forecast, "management_outlook") =
               Obj(<<"sentiment", "key_statements", "strategic_focus">>,
                   <<Str("neutral"), Arr(<<Str("See raw output for details")>>),
                     Arr(<<Str("Multiple areas")>>)>>)
        /\ Field(outcome.forecast, "risks_and_opportunities") =
               Arr(<<Obj(<<"type", "description", "potential_impact">>,
                         <<Str("opportunity"), Str("Analysis in progress"),
                           Str("medium")>>)>>)
        /\ Field(outcome.forecast, "quarterly_forecast") = Str(Prefix(output_text, 500))
        /\ Field(outcome.forecast, "confidence_level") = Str("medium")
        /\ Field(outcome.forecast, "data_sources_used") = Arr(<<Str("analysis_tools")>>)
        /\ output_text = "I cannot comply." =>
               /\ Field(outcome.forecast, "quarterly_forecast") = Str("I cannot comply.")
               /\ Field(outcome.forecast, "financial_trends").vals[1].vals[4]
                      = Str("I cannot comply.")

C10_Witness ==
    /\ pc = "returned"
    /\ Len(output_text) > 500
    /\ NothingParses(output_text)
    /\ Field(outcome.forecast, "quarterly_forecast") = Str(Repeat("x", 500))

-----------------------------------------------------------------------------
(* Properties of the pipeline, checked under Spec and FairSpec *)

Labels == <<"Financial Data", "Transcript Analysis", "Market Data">>
ToolIds == <<FinancialId, TranscriptId, MarketId>>
Steps == <<"financial", "transcripts", "market">>

InSeq(x, seq) == \E n \in 1..Len(seq) : seq[n] = x

StartsWith(text, head) == Slice(text, 1, Len(head)) = head

\* block is the placeholder of the step labeled label
IsPlaceholder(block, label) == StartsWith(block, label \o ": Not available - ")

\* text is a JSON object with an "error" member
SignalsError(text) ==
    LET r == json_loads(text)
    IN r.ok /\ r.v.t = "obj" /\ HasField(r.v, "error")

\* after all three steps: the adapter of step k raised, or the text it
\* returned, which the context then holds, signals an error
StepFailed(k) ==
    \/ env[Steps[k]].adapter = "raising"
    \/ /\ StartsWith(tool_outputs[k], Labels[k] \o ":\n")
       /\ SignalsError(Slice(tool_outputs[k], Len(Labels[k]) + 3, Len(tool_outputs[k])))

\* C4: whatever the three tool steps meet, the request does not end at a
\* tool step: it reaches the model call, and it raises only after that call.
C4_ToolsNeverBlockSynthesis ==
    /\ <>(llm_calls > 0)
    /\ [](outcome.kind = "raised" => llm_calls > 0)

C4_Witness ==
    /\ llm_calls = 1
    /\ env.financial.adapter = "raising"
    /\ env.transcripts.adapter = "repo"
    /\ env.market.adapter = "raising"
    /\ outcome.kind = "returned"

\* C5: in the returned result each tool's identifier is in tools_used exactly
\* when its adapter succeeded; when it failed, by raising or by an error in
\* its returned text, the context holds the placeholder for that step.
C5_UsedIffSucceeded ==
    pc = "returned" =>
        \A k \in 1..3 :
            /\ InSeq(ToolIds[k], outcome.tools_used) <=> ~StepFailed(k)
            /\ StepFailed(k) => IsPlaceholder(tool_outputs[k], Labels[k])

\* C6: when none of the three tools succeeded, the model is still called,
\* with a context of three placeholder blocks, and tools_used stays empty.
C6_NoToolSucceeds ==
    pc \in {"parse", "raised", "returned"} /\ (\A k \in 1..3 : StepFailed(k)) =>
        /\ llm_calls = 1
        /\ \A k \in 1..3 : IsPlaceholder(tool_outputs[k], Labels[k])
        /\ llm_prompt.combined_data =
               tool_outputs[1] \o "\n\n" \o tool_outputs[2] \o "\n\n" \o tool_outputs[3]
        /\ tools_used = <<>>
        /\ pc = "returned" => outcome.tools_used = <<>>

\* word occurs in text, in any letter case
Mentions(text, word) ==
    \E p \in 1..Len(text) :
        \A k \in 1..Len(word) : LowerChar(Char(text, p + k - 1)) = Char(word, k)

Rule1(text) == Mentions(text, "ai") \/ Mentions(text, "artificial intelligence")
Rule2(text) == Mentions(text, "outlook") \/ Mentions(text, "forecast")
Rule3(text) == Mentions(text, "risk")

\* C7: the transcript query is the template of the first rule the task
\* matches, in any letter case: the AI query for "ai" or "artificial
\* intelligence", else the guidance query for "outlook" or "forecast", else
\* the risk query for "risk", else the themes query.
C7_QueryPriority ==
    pc = "step3" =>
        /\ Rule1(task) => transcript_query = AiQuery
        /\ ~Rule1(task) /\ Rule2(task) => transcript_query = OutlookQuery
        /\ ~Rule1(task) /\ ~Rule2(task) /\ Rule3(task) => transcript_query = RiskQuery
        /\ ~Rule1(task) /\ ~Rule2(task) /\ ~Rule3(task) => transcript_query = ThemesQuery
        /\ task = "Analyze AI-driven growth outlook for TCS" => transcript_query = AiQuery

C7_Witness ==
    /\ pc = "step3"
    /\ task = "artificial intelligence risk outlook"
    /\ transcript_query = AiQuery

\* C8 as stated: when the task contains "outlook" and the transcript step
\* succeeded, the query given to the adapter is the guidance template.
C8_OutlookTask ==
    pc = "step3" /\ InSeq(TranscriptId, tools_used) /\ Contains(task, "outlook")
        => transcript_query = OutlookQuery

\* C8: when the task contains "outlook" in any letter case, and in any
\* letter case neither "ai" nor "artificial intelligence", and the
\* transcript step succeeded, the query given to the adapter is the
\* guidance template.
C8_OutlookTaskWithoutAi ==
    (/\ pc = "step3"
     /\ InSeq(TranscriptId, tools_used)
     /\ Mentions(task, "outlook")
     /\ ~Rule1(task))
        => transcript_query = "What is management's forward-looking guidance and outlook?"

C8_Witness ==
    /\ pc = "step3"
    /\ task = "Q4 revenue OUTLOOK"
    /\ InSeq(TranscriptId, tools_used)
    /\ env.transcripts.fault = ""
    /\ env.transcripts.has_data
    /\ transcript_query = OutlookQuery

\* the exception the model call of this request raised, "" when none
SynthesisException ==
    IF env.llm.fault # "" THEN env.llm.fault
    ELSE IF env.llm.adapter = "llm" /\ ~env.llm.has_data /\ provider = "openai"
    THEN "'str' object has no attribute 'content'"
    ELSE ""

\* C9: when the model call raises, the request gives its caller that same
\* exception and no result: no forecast, no tools_used, no raw_output.
C9_SynthesisFailureIsFatal ==
    pc \in {"parse", "raised", "returned"} /\ SynthesisException # "" =>
        /\ pc = "raised"
        /\ outcome.kind = "raised"
        /\ outcome.error = SynthesisException
        /\ outcome.forecast = NoForecast
        /\ outcome.tools_used = <<>>
        /\ outcome.raw_output = ""

C9_Witness ==
    /\ pc = "raised"
    /\ env.llm.fault = "model not found"
    /\ tools_used # <<>>
    /\ outcome.error = "model not found"

\* C11: in every returned result raw_output is the text the model call
\* returned, character for character, also when recovery fell back to the
\* default record; recovery leaves the text it was given as it was.
C11_RawOutputPreserved ==
    pc = "returned" =>
        /\ outcome.raw_output = env.llm.reply
        /\ output_text = env.llm.reply

C11_Witness ==
    /\ pc = "returned"
    /\ Len(env.llm.reply) > 500
    /\ NothingParses(env.llm.reply)
    /\ outcome.raw_output = env.llm.reply
    /\ Field(outcome.forecast, "confidence_level") = Str("medium")
    /\ Field(outcome.forecast, "quarterly_forecast") # Str(outcome.raw_output)

\* the call of step k has been made (and has returned or raised)
StepDone(k) == env[Steps[k]] # Pending

\* C12: the steps of one invocation run one at a time in the order financial
\* extraction, transcript analysis, market data, model call: a step is taken
\* only when every earlier one has ended, one step ends at a time, and the
\* context grows by one block per ended tool step.
C12_StepsInOrder ==
    /\ [](/\ StepDone(2) => StepDone(1)
          /\ StepDone(3) => StepDone(2)
          /\ env.llm # Pending => StepDone(3)
          /\ llm_calls > 0 => StepDone(3)
          /\ Len(tool_outputs) = Cardinality({k \in 1..3 : StepDone(k)}))
    /\ [][Cardinality({n \in DOMAIN env : env'[n] # env[n]}) <= 1]_vars

C12_Witness ==
    /\ pc = "step3"
    /\ StepDone(1)
    /\ env.transcripts.adapter = "raising"
    /\ ~StepDone(3)
    /\ llm_calls = 0

\* block is the text of the step labeled label, or its placeholder
IsLabeled(block, label) ==
    StartsWith(block, label \o ":\n") \/ IsPlaceholder(block, label)

\* C13: once the synthesis prompt is built, its combined context is three
\* labeled blocks, Financial Data, Transcript Analysis, Market Data in this
\* order, whichever tools succeeded or failed.
C13_ThreeBlocksInOrder ==
    pc \in {"parse", "raised", "returned"} =>
        /\ Len(tool_outputs) = 3
        /\ \A k \in 1..3 : IsLabeled(tool_outputs[k], Labels[k])
        /\ llm_prompt.combined_data =
               tool_outputs[1] \o "\n\n" \o tool_outputs[2] \o "\n\n" \o tool_outputs[3]

C13_Witness ==
    /\ pc = "parse"
    /\ env.financial.adapter = "raising"
    /\ env.transcripts.adapter = "repo"
    /\ env.market.adapter = "raising"
    /\ StartsWith(llm_prompt.combined_data, "Financial Data: Not available - ")

\* C14: an invocation calls the synthesis model exactly once: the count of
\* calls settles at one, never exceeds one, and changes only at step 4.
C14_ModelCalledOnce ==
    /\ <>[](llm_calls = 1)
    /\ [](llm_calls <= 1)
    /\ [][llm_calls' # llm_calls => pc = "step4" /\ llm_calls' = 1]_vars

C14_Witness ==
    /\ pc = "raised"
    /\ llm_calls = 1
    /\ env.llm.fault # ""
    /\ outcome.kind = "raised"

\* C18: when the whole text does not parse, the result is the parse of the
\* span captured by the first of the patterns (json fence, any fence,
\* balanced braces) whose span parses; a span that does not parse does not
\* stop the search.  So a json-fenced object wins over an earlier bare one.
C18_PatternPriority ==
    pc = "returned" =>
        LET direct == json_loads(strip(output_text))
            c1 == Captured(PatternSearch(output_text, 1))
            c2 == Captured(PatternSearch(output_text, 2))
            c3 == Captured(PatternSearch(output_text, 3))
        IN ~direct.ok =>
               /\ c1.ok => outcome.forecast = c1.v
               /\ (~c1.ok /\ c2.ok) => outcome.forecast = c2.v
               /\ (~c1.ok /\ ~c2.ok /\ c3.ok) => outcome.forecast = c3.v
               /\ output_text = SmallObject \o " " \o Fenced("json", DeepObject)
                     => outcome.forecast = json_loads(DeepObject).v

C18_Witness ==
    /\ pc = "returned"
    /\ output_text = Fenced("json", "{bad}") \o Fenced("", SmallObject)
    /\ PatternSearch(output_text, 1).found
    /\ ~Parses(output_text, 1)
    /\ outcome.forecast = json_loads(SmallObject).v

\* C19: the span from the first "{" to the last "}" is used only when no
\* pattern gave a parse, and the fallback record is the result exactly when
\* the whole text, every pattern and that span all fail to parse.
C19_FallbackLast ==
    pc = "returned" =>
        LET direct == json_loads(strip(output_text))
            c1 == Captured(PatternSearch(output_text, 1))
            c2 == Captured(PatternSearch(output_text, 2))
            c3 == Captured(PatternSearch(output_text, 3))
            outer == OuterBraces(output_text)
            none == ~c1.ok /\ ~c2.ok /\ ~c3.ok
        IN /\ (outcome.forecast = FallbackRecord(output_text))
                  <=> (~direct.ok /\ none /\ ~outer.ok)
           /\ (~direct.ok /\ ~none) =>
                  \E c \in {c1, c2, c3} : c.ok /\ outcome.forecast = c.v
           /\ (~direct.ok /\ none /\ outer.ok) => outcome.forecast = outer.v

C19_Witness ==
    /\ pc = "returned"
    /\ output_text = "Sure, here you go:\n" \o BraceInString
    /\ PatternSearch(output_text, 3).found
    /\ \A n \in 1..3 : ~Parses(output_text, n)
    /\ outcome.forecast = json_loads(BraceInString).v

\* C20: for a text without fences whose span from the first "{" to the last
\* "}" is one valid JSON object, with brace-free prose around it, the result
\* is the parse of that whole object.
C20_WholeObject ==
    pc = "returned" /\ ~Contains(output_text, Fence) =>
        LET p == FirstIn(output_text, {"{"}, 1, Len(output_text))
            e == LastIn(output_text, {"}"}, 1, Len(output_text))
        IN p < e /\ json_loads(Slice(output_text, p, e)).ok
               => outcome.forecast = json_loads(Slice(output_text, p, e)).v

-----------------------------------------------------------------------------
(* Properties of the tool adapters, checked under Spec *)

\* the text the adapter of step k returned, as the context holds it
ReturnedText(k) == Slice(tool_outputs[k], Len(Labels[k]) + 3, Len(tool_outputs[k]))

\* the repository's adapter of step k met a failure: an exception inside
\* it, no documents, no transcript store or a status other than 200, or a
\* chain output that json.loads does not parse
AdapterFailure(k) ==
    \/ env[Steps[k]].fault # ""
    \/ ~env[Steps[k]].has_data
    \/ k = 1 /\ ~json_loads(strip(env.financial.reply)).ok
    \/ k = 2 /\ ~json_loads(env.transcripts.reply).ok

\* C16: each of the repository's three adapters returns instead of raising,
\* and for every failure inside it the text it returns describes the error:
\* a JSON object with an "error" member.
C16_AdaptersReturnErrorText ==
    pc = "step4" =>
        \A k \in 1..3 :
            env[Steps[k]].adapter = "repo" =>
                /\ StartsWith(tool_outputs[k], Labels[k] \o ":\n")
                /\ InSeq(ToolIds[k], tools_used)
                /\ AdapterFailure(k) => SignalsError(ReturnedText(k))

\* the part of C16 that holds: the repository's adapters never raise, and
\* an exception inside one, missing documents, a missing store and a status
\* other than 200 each give a text with an "error" member
C16_ExceptionsBecomeErrorText ==
    pc = "step4" =>
        \A k \in 1..3 :
            env[Steps[k]].adapter = "repo" =>
                /\ StartsWith(tool_outputs[k], Labels[k] \o ":\n")
                /\ InSeq(ToolIds[k], tools_used)
                /\ (env[Steps[k]].fault # "" \/ ~env[Steps[k]].has_data)
                      => SignalsError(ReturnedText(k))

\* the financial adapter hands back an unparsable span of the chain output
C16_UnparsableSpanReturned ==
    /\ pc = "step4"
    /\ env.financial = Met("repo", "", TRUE, "Here {bad} done")
    /\ tool_outputs[1] = "Financial Data:\n{bad}"

\* the transcript adapter wraps an unparsable chain output as an analysis
C16_UnparsableAnswerWrapped ==
    /\ pc = "step4"
    /\ env.transcripts = Met("repo", "", TRUE, "Management is optimistic.")
    /\ ~SignalsError(ReturnedText(2))
    /\ Field(json_loads(ReturnedText(2)).v, "analysis") = Str("Management is optimistic.")

-----------------------------------------------------------------------------
(* app/main.py: the /forecast handler.  Timing (execution_time_seconds,   *)
(* timestamp) is left out.                                                 *)

\* a row of forecast_logs as the handler fills it
LogRow(t, used, output, prov, status, message) ==
    [task_description |-> t, tools_used |-> used, forecast_output |-> output,
     llm_provider |-> prov, status |-> status, error_message |-> message]

\* ForecastLog(..., status="success")
SuccessRow(t, used, forecast, prov) == LogRow(t, used, forecast, prov, "success", "")

\* ForecastLog(..., tools_used=[], forecast_output={"error": str(e)},
\*             status="error", error_message=str(e))
ErrorRow(t, e, prov) ==
    LogRow(t, <<>>, Obj(<<"error">>, <<Str(e)>>), prov, "error", e)

\* return ForecastResponse(status="success", ...)
SuccessResponse(used, forecast, id) ==
    [status |-> "success", code |-> 200, detail |-> "", tools_used |-> used,
     forecast |-> forecast, log_id |-> id]

\* a variant that hides the message
Http500Generic(e) ==
    [status |-> "error", code |-> 500, detail |-> "Internal Server Error",
     tools_used |-> <<>>, forecast |-> NoForecast, log_id |-> 0]

\* raise HTTPException(status_code=500, detail=str(e))
Http500(e) ==
    [status |-> "error", code |-> 500, detail |-> e, tools_used |-> <<>>,
     forecast |-> NoForecast, log_id |-> 0]

IsStrList(v) == v.t = "arr" /\ \A n \in 1..Len(v.vals) : v.vals[n].t = "str"

HasStr(v, name) == HasField(v, name) /\ Field(v, name).t = "str"

\* app/models.py FinancialTrend
IsFinancialTrend(v) ==
    /\ v.t = "obj"
    /\ HasStr(v, "metric") /\ HasStr(v, "trend") /\ HasStr(v, "analysis")
    /\ HasField(v, "percentage_change") =>
          \/ Field(v, "percentage_change").t = "num"
          \/ Field(v, "percentage_change") = Lit("null")

\* app/models.py ManagementOutlook
IsManagementOutlook(v) ==
    /\ v.t = "obj"
    /\ HasStr(v, "sentiment")
    /\ HasField(v, "key_statements") /\ IsStrList(Field(v, "key_statements"))
    /\ HasField(v, "strategic_focus") /\ IsStrList(Field(v, "strategic_focus"))

\* app/models.py RiskOpportunity
IsRiskOpportunity(v) ==
    /\ v.t = "obj"
    /\ HasStr(v, "type") /\ HasStr(v, "description") /\ HasStr(v, "potential_impact")

\* every field of app/models.py ForecastOutput is there with its declared type
Conforms(v) ==
    /\ IsForecastRecord(v)
    /\ HasStr(v, "summary") /\ HasStr(v, "quarterly_forecast")
    /\ HasStr(v, "confidence_level")
    /\ IsStrList(Field(v, "data_sources_used"))
    /\ IsManagementOutlook(Field(v, "management_outlook"))
    /\ Field(v, "financial_trends").t = "arr"
    /\ \A n \in 1..Len(Field(v, "financial_trends").vals) :
          IsFinancialTrend(Field(v, "financial_trends").vals[n])
    /\ Field(v, "risks_and_opportunities").t = "arr"
    /\ \A n \in 1..Len(Field(v, "risks_and_opportunities").vals) :
          IsRiskOpportunity(Field(v, "risks_and_opportunities").vals[n])

\* whether ForecastOutput(**forecast_data) returns: it does for a conforming
\* record; it raises for a value that is no dict and for a dict without a
\* required field; for a field of another type the coercions of the
\* installed pydantic decide, which the repository does not pin
ValidationOutcomes(v) ==
    IF v.t = "obj" /\ Conforms(v) THEN {TRUE}
    ELSE IF v.t # "obj" \/ ~IsForecastRecord(v) THEN {FALSE}
    ELSE BOOLEAN

\* str(e) of what ForecastOutput(**forecast_data) raises
ValidationMessage(v) ==
    IF v.t # "obj" THEN "argument after ** must be a mapping"
    ELSE "validation error for ForecastOutput"

ConstructFaults == {"", "OPENAI_API_KEY is not set"}
CommitFaults == {"", "commit failed"}
RefreshFaults == {"", "refresh failed"}

HandlerTasks == {"Analyze the last 3 quarters and provide a forecast for Q4"}

\* a request has entered the handler; nothing of its try block has run
InitHandler ==
    /\ pc = "new"
    /\ provider \in Providers
    /\ task \in HandlerTasks
    /\ env = NoEnv
    /\ tools_used = <<>>
    /\ tool_outputs = <<>>
    /\ transcript_query = ""
    /\ llm_prompt = NoPrompt
    /\ llm_calls = 0
    /\ output_text = ""
    /\ outcome = Running
    /\ hpc = "construct"
    /\ caught = ""
    /\ db_added = <<>>
    /\ db_rows = <<>>
    /\ response = NoResponse
    /\ peer = NoPeer
    /\ StoreIdle

\* orchestrator = ForecastOrchestrator(): get_llm may raise; otherwise
\* generate_forecast is entered
HandlerConstruct ==
    /\ UNCHANGED store
    /\ hpc = "construct"
    /\ \E fault \in ConstructFaults :
          IF fault = ""
          THEN /\ hpc' = "call"
               /\ pc' = "step1"
               /\ caught' = caught
          ELSE /\ hpc' = "except"
               /\ pc' = pc
               /\ caught' = fault
    /\ UNCHANGED <<provider, task, env, tools_used, tool_outputs, transcript_query,
                   llm_prompt, llm_calls, output_text, outcome,
                   db_added, db_rows, response, peer>>

\* the try block after generate_forecast returned: ForecastOutput(**...),
\* the success row, db.add, db.commit, db.refresh, return ForecastResponse.
\* A commit that raises persists nothing.
HandlerReturn ==
    /\ UNCHANGED store
    /\ hpc = "call"
    /\ pc = "returned"
    /\ \E valid \in ValidationOutcomes(outcome.forecast),
          commit \in CommitFaults, refresh \in RefreshFaults :
          LET row == SuccessRow(task, outcome.tools_used, outcome.forecast, provider)
          IN IF ~valid
             THEN /\ hpc' = "except"
                  /\ caught' = ValidationMessage(outcome.forecast)
                  /\ UNCHANGED <<db_added, db_rows, response>>
             ELSE IF commit # ""
             THEN /\ hpc' = "except"
                  /\ caught' = commit
                  /\ db_added' = Append(db_added, row)
                  /\ UNCHANGED <<db_rows, response>>
             ELSE IF refresh # ""
             THEN /\ hpc' = "except"
                  /\ caught' = refresh
                  /\ db_added' = Append(db_added, row)
                  /\ db_rows' = Append(db_rows, row)
                  /\ UNCHANGED response
             ELSE /\ hpc' = "done"
                  /\ caught' = caught
                  /\ db_added' = Append(db_added, row)
                  /\ db_rows' = Append(db_rows, row)
                  /\ response' = SuccessResponse(outcome.tools_used, outcome.forecast,
                                                 Len(db_rows) + 1)
    /\ UNCHANGED <<pc, provider, task, env, tools_used, tool_outputs, transcript_query,
                   llm_prompt, llm_calls, output_text, outcome, peer>>

\* except Exception as e: the error row, db.add, db.commit inside
\* try/except: pass, then raise HTTPException(500, str(e)).  e is what the
\* try block raised: the exception generate_forecast raised, or caught.
HandlerExcept ==
    /\ UNCHANGED store
    /\ \/ hpc = "except"
       \/ hpc = "call" /\ pc = "raised"
    /\ caught' = IF hpc = "except" THEN caught ELSE outcome.error
    /\ db_added' = Append(db_added, ErrorRow(task, caught', provider))
    /\ \E commit \in CommitFaults :
          db_rows' = IF commit = "" THEN Append(db_rows, ErrorRow(task, caught', provider))
                     ELSE db_rows
    /\ response' = Http500(caught')
    /\ hpc' = "done"
    /\ UNCHANGED <<pc, provider, task, env, tools_used, tool_outputs, transcript_query,
                   llm_prompt, llm_calls, output_text, outcome, peer>>

NextHandler ==
    \/ HandlerConstruct
    \/ Next
    \/ HandlerReturn
    \/ HandlerExcept

SpecHandler == InitHandler /\ [][NextHandler]_vars

-----------------------------------------------------------------------------
(* Properties of the handler, checked under SpecHandler *)

\* C17: when generate_forecast raises, the handler's next step ends the
\* request with HTTP 500 whose detail is the message of that exception; it
\* passes one row to db.add, with status "error", no tools and that message,
\* and whether or not that row's commit fails the response is the same.
C17_RaiseBecomesHttp500 ==
    /\ [](hpc = "done" /\ pc = "raised" =>
             /\ response = Http500(outcome.error)
             /\ response.code = 500
             /\ response.detail = OutputText(provider, env.llm).text
             /\ db_added = <<ErrorRow(task, outcome.error, provider)>>
             /\ db_added[1].status = "error"
             /\ db_added[1].tools_used = <<>>
             /\ db_added[1].error_message = OutputText(provider, env.llm).text
             /\ db_rows \in {<<>>, db_added})
    /\ [][hpc = "call" /\ pc = "raised" => hpc' = "done" /\ response'.code = 500]_vars

C17_Witness ==
    /\ hpc = "done"
    /\ pc = "raised"
    /\ Len(db_added) = 1
    /\ db_rows = <<>>
    /\ response.code = 500
    /\ response.detail = outcome.error
    /\ outcome.error # ""

-----------------------------------------------------------------------------
(* Two requests at once.  The handler is a plain def, which the server     *)
(* runs on a thread per request: each request constructs its own           *)
(* ForecastOrchestrator and calls generate_forecast, whose state is its    *)
(* argument and its locals.  One call runs while the other is suspended in *)
(* peer; a switch may come between any two steps.                          *)

\* a variant in which the two lists belong to one shared orchestrator
SwitchSharingLists ==
    /\ UNCHANGED store
    /\ peer.pc # "none"
    /\ peer' = Frame(pc, task, env, tools_used, tool_outputs, transcript_query,
                     llm_prompt, llm_calls, output_text, outcome)
    /\ pc' = peer.pc
    /\ task' = peer.task
    /\ env' = peer.env
    /\ transcript_query' = peer.transcript_query
    /\ llm_prompt' = peer.llm_prompt
    /\ llm_calls' = peer.llm_calls
    /\ output_text' = peer.output_text
    /\ outcome' = peer.outcome
    /\ UNCHANGED <<tools_used, tool_outputs, provider, hpc, caught, db_added, db_rows,
                   response>>

\* the running call is suspended and the suspended one resumes, each with
\* its own argument and locals
Switch ==
    /\ UNCHANGED store
    /\ peer.pc # "none"
    /\ peer' = Frame(pc, task, env, tools_used, tool_outputs, transcript_query,
                     llm_prompt, llm_calls, output_text, outcome)
    /\ pc' = peer.pc
    /\ task' = peer.task
    /\ env' = peer.env
    /\ tools_used' = peer.tools_used
    /\ tool_outputs' = peer.tool_outputs
    /\ transcript_query' = peer.transcript_query
    /\ llm_prompt' = peer.llm_prompt
    /\ llm_calls' = peer.llm_calls
    /\ output_text' = peer.output_text
    /\ outcome' = peer.outcome
    /\ UNCHANGED <<provider, hpc, caught, db_added, db_rows, response>>

ConcurrentTasks ==
    {"Analyze AI-driven growth outlook for TCS", "Summarize revenue"}

\* what the collaborators of the two requests meet
ConcurrentMet ==
    [financial |-> {Pending, Met("repo", "", FALSE, ""),
                    Met("raising", "reports unavailable", FALSE, "")},
     transcripts |-> {Pending, Met("repo", "", TRUE, "Management is optimistic."),
                      Met("raising", "index unavailable", FALSE, "")},
     market |-> {Pending, Met("repo", "", TRUE, "4100.5")},
     llm |-> {Pending, Met("llm", "", TRUE, "I cannot comply."),
              Met("llm", "model not found", FALSE, "")}]

InitConcurrent ==
    /\ pc = "step1"
    /\ provider = "ollama"
    /\ task \in ConcurrentTasks
    /\ env = NoEnv
    /\ tools_used = <<>>
    /\ tool_outputs = <<>>
    /\ transcript_query = ""
    /\ llm_prompt = NoPrompt
    /\ llm_calls = 0
    /\ output_text = ""
    /\ outcome = Running
    /\ hpc = "direct"
    /\ caught = ""
    /\ db_added = <<>>
    /\ db_rows = <<>>
    /\ response = NoResponse
    /\ \E t \in ConcurrentTasks : peer = Entered(t)
    /\ StoreIdle

\* a step of the running call, with collaborators from ConcurrentMet
RunningStep ==
    /\ Next
    /\ \A n \in DOMAIN env : env'[n] \in ConcurrentMet[n]

NextConcurrent ==
    \/ RunningStep
    \/ Switch

SpecConcurrent == InitConcurrent /\ [][NextConcurrent]_vars

-----------------------------------------------------------------------------
(* Properties of concurrent requests, checked under SpecConcurrent *)

\* generate_forecast(t) run alone under provider prov, its collaborators
\* meeting e: the lists after each tool step, the prompt and the result
AloneStep1(e) ==
    ToolStep("Financial Data", FinancialId,
             Call(e.financial, extract_financial_data(e.financial)),
             <<>>, <<>>, "step2")

AloneStep2(t, e, s1) ==
    ToolStep("Transcript Analysis", TranscriptId,
             Call(e.transcripts, analyze_transcripts(_extract_transcript_query(t),
                                                     e.transcripts)),
             s1.tools_used, s1.tool_outputs, "step3")

AloneStep3(e, s2) ==
    ToolStep("Market Data", MarketId, Call(e.market, fetch_market_data("TCS.NS", e.market)),
             s2.tools_used, s2.tool_outputs, "step4")

AloneResult(t, s3, out) ==
    [tools_used |-> s3.tools_used,
     combined_data |-> SynthesisPrompt(t, s3.tool_outputs, s3.tools_used).combined_data,
     outcome |-> IF out.kind = "return"
                 THEN Returned(_extract_json(out.text), s3.tools_used, out.text)
                 ELSE Reraised(out.text)]

Alone(t, prov, e) ==
    AloneResult(t, AloneStep3(e, AloneStep2(t, e, AloneStep1(e))), OutputText(prov, e.llm))

\* the call with frame f has ended, and ended as it would have alone
EndedAsAlone(f, own) ==
    /\ f.outcome = own.outcome
    /\ f.tools_used = own.tools_used
    /\ f.llm_prompt.combined_data = own.combined_data

Independent(f) ==
    f.pc \in {"returned", "raised"} => EndedAsAlone(f, Alone(f.task, provider, f.env))

-----------------------------------------------------------------------------
(* The tool steps with the repository's adapters, checked under Spec *)

\* every collaborator of this request is the repository's adapter
RepoAdapters == \A k \in 1..3 : env[Steps[k]].adapter = "repo"

\* C24: with the repository's three adapters the except branch of a tool
\* step is never taken: every result generate_forecast returns lists the
\* three tools in order and its context holds no "Not available"
\* placeholder, whatever went wrong inside the adapters.
C24_RepoAdaptersAlwaysUsed ==
    pc = "returned" /\ RepoAdapters =>
        /\ outcome.tools_used = <<FinancialId, TranscriptId, MarketId>>
        /\ tools_used = outcome.tools_used
        /\ \A k \in 1..3 : /\ StartsWith(tool_outputs[k], Labels[k] \o ":\n")
                           /\ ~IsPlaceholder(tool_outputs[k], Labels[k])
        /\ ~Contains(llm_prompt.combined_data, "Not available")

C24_Witness ==
    /\ pc = "returned"
    /\ RepoAdapters
    /\ env.financial.fault # ""
    /\ ~env.transcripts.has_data
    /\ env.market.fault # ""
    /\ outcome.tools_used = <<FinancialId, TranscriptId, MarketId>>

-----------------------------------------------------------------------------
(* The handler's response and its log rows, checked under SpecHandler *)

\* C25: the orchestrator runs once per request; a success response has
\* exactly one committed row, the success row with the orchestrator's
\* forecast and tools_used; a request ending in HTTP 500 has committed no
\* success row; and no request commits more than one row.
C25_ResponseAndRowsAgree ==
    hpc = "done" =>
        /\ llm_calls <= 1
        /\ response.code = 200 =>
              db_rows = <<SuccessRow(task, outcome.tools_used, outcome.forecast, provider)>>
        /\ response.code = 500 => \A n \in 1..Len(db_rows) : db_rows[n].status # "success"
        /\ Len(db_rows) <= 1

\* the part of C25 that holds: a success response has exactly one committed
\* row, stored verbatim, and a request whose try block fails before the
\* commit returns commits at most the error row
C25_SuccessHasOneRow ==
    hpc = "done" =>
        /\ llm_calls <= 1
        /\ response.code \in {200, 500}
        /\ response.code = 200 =>
              /\ db_rows = <<SuccessRow(task, outcome.tools_used, outcome.forecast, provider)>>
              /\ response.forecast = outcome.forecast
              /\ response.tools_used = outcome.tools_used
              /\ response.log_id = 1
        /\ (response.code = 500 /\ caught # "refresh failed") =>
              /\ Len(db_rows) <= 1
              /\ \A n \in 1..Len(db_rows) : db_rows[n].status = "error"

\* db.refresh raised after db.commit: the success row and the error row
\* are both committed and the client gets HTTP 500
C25_TwoRowsAndHttp500 ==
    /\ hpc = "done"
    /\ response = Http500("refresh failed")
    /\ Len(db_rows) = 2
    /\ db_rows[1].status = "success"
    /\ db_rows[2].status = "error"

-----------------------------------------------------------------------------
(* tools/qualitative_analysis.py: initialize_vectorstore and its two module
   globals.  Each action is one statement of one thread; another thread may
   run between any two of them. *)

MaxCalls == 3

\* the store Chroma.from_documents returns for the documents of directory d
Chroma(d, n) == [dir |-> d, build |-> n]

\* get_embeddings() and Chroma.from_documents may raise inside the try block
BuildFaults == {"", "embedding model unavailable"}

\* if _initialized: return _vectorstore, otherwise the try block is entered
AfterCheckRebuilding(flag) == "exists"

AfterCheck(flag) == IF flag THEN "cached" ELSE "exists"

\* the frame at another statement of the same call
At(f, at) == [f EXCEPT !.pc = at]

\* the frame after return v
Leave(f, v) == [f EXCEPT !.pc = "idle", !.got = v]

\* initialize_vectorstore(d) is called; analyze_transcripts passes no
\* argument, so its calls get the default directory
CallInitialize ==
    \E t \in Threads :
        /\ threads[t].pc = "idle"
        /\ threads[t].calls < threads[t].budget
        /\ \E d \in (IF threads[t].via = "analyze" THEN {DefaultDir} ELSE Dirs) :
               threads' = [threads EXCEPT ![t] =
                   [@ EXCEPT !.pc = "check", !.calls = @ + 1, !.dir = d,
                             !.documents = FALSE, !.loaded = FALSE,
                             !.value = None, !.got = None,
                             !.began = Globals(_initialized, _vectorstore, builds)]]
        /\ UNCHANGED <<_vectorstore, _initialized, files, builds>>
        /\ UNCHANGED request

\* if _initialized:
CheckInitialized ==
    \E t \in Threads :
        /\ threads[t].pc = "check"
        /\ threads' = [threads EXCEPT ![t] = At(@, AfterCheck(_initialized))]
        /\ UNCHANGED <<_vectorstore, _initialized, files, builds>>
        /\ UNCHANGED request

\* return _vectorstore, of the branch taken when _initialized was true
ReturnCached ==
    \E t \in Threads :
        /\ threads[t].pc = "cached"
        /\ threads' = [threads EXCEPT ![t] = Leave(@, _vectorstore)]
        /\ UNCHANGED <<_vectorstore, _initialized, files, builds>>
        /\ UNCHANGED request

\* if not Path(transcripts_dir).exists(): return None
DirectoryExists ==
    \E t \in Threads :
        /\ threads[t].pc = "exists"
        /\ threads' = [threads EXCEPT ![t] =
               IF files[@.dir] = "missing" THEN Leave(@, None) ELSE At(@, "load_txt")]
        /\ UNCHANGED <<_vectorstore, _initialized, files, builds>>
        /\ UNCHANGED request

\* documents = document_loader.load_directory(transcripts_dir, ".txt")
LoadTxt ==
    \E t \in Threads :
        /\ threads[t].pc = "load_txt"
        /\ LET found == files[threads[t].dir] = "txt"
           IN  threads' = [threads EXCEPT ![t] =
                   [@ EXCEPT !.loaded = TRUE,
                             !.documents = found,
                             !.pc = IF found THEN "embed" ELSE "load_pdf"]]
        /\ UNCHANGED <<_vectorstore, _initialized, files, builds>>
        /\ UNCHANGED request

\* the .pdf fallback, then if not documents: return None
LoadPdf ==
    \E t \in Threads :
        /\ threads[t].pc = "load_pdf"
        /\ threads' = [threads EXCEPT ![t] =
               IF files[@.dir] = "pdf"
               THEN [@ EXCEPT !.documents = TRUE, !.pc = "embed"]
               ELSE Leave(@, None)]
        /\ UNCHANGED <<_vectorstore, _initialized, files, builds>>
        /\ UNCHANGED request

\* embeddings = get_embeddings(); an exception goes to except: return None
GetEmbeddings ==
    \E t \in Threads :
        /\ threads[t].pc = "embed"
        /\ \E fault \in BuildFaults :
               threads' = [threads EXCEPT ![t] =
                   IF fault # "" THEN Leave(@, None) ELSE At(@, "build")]
        /\ UNCHANGED <<_vectorstore, _initialized, files, builds>>
        /\ UNCHANGED request

\* Chroma.from_documents(...) returns a new store, not yet assigned, or raises
FromDocuments ==
    \E t \in Threads :
        /\ threads[t].pc = "build"
        /\ \E fault \in BuildFaults :
               IF fault # ""
               THEN /\ threads' = [threads EXCEPT ![t] = Leave(@, None)]
                    /\ UNCHANGED builds
               ELSE /\ threads' = [threads EXCEPT ![t] =
                            [@ EXCEPT !.pc = "assign",
                                      !.value = Chroma(threads[t].dir, builds + 1)]]
                    /\ builds' = builds + 1
        /\ UNCHANGED <<_vectorstore, _initialized, files>>
        /\ UNCHANGED request

\* _vectorstore = <the store from_documents returned>
AssignVectorstore ==
    \E t \in Threads :
        /\ threads[t].pc = "assign"
        /\ _vectorstore' = threads[t].value
        /\ threads' = [threads EXCEPT ![t] = At(@, "set")]
        /\ UNCHANGED <<_initialized, files, builds>>
        /\ UNCHANGED request

\* _initialized = True
SetInitialized ==
    \E t \in Threads :
        /\ threads[t].pc = "set"
        /\ _initialized' = TRUE
        /\ threads' = [threads EXCEPT ![t] = At(@, "return")]
        /\ UNCHANGED <<_vectorstore, files, builds>>
        /\ UNCHANGED request

\* return _vectorstore, of the branch that built the store
ReturnVectorstore ==
    \E t \in Threads :
        /\ threads[t].pc = "return"
        /\ threads' = [threads EXCEPT ![t] = Leave(@, _vectorstore)]
        /\ UNCHANGED <<_vectorstore, _initialized, files, builds>>
        /\ UNCHANGED request

NextStore ==
    \/ CallInitialize
    \/ CheckInitialized
    \/ ReturnCached
    \/ DirectoryExists
    \/ LoadTxt
    \/ LoadPdf
    \/ GetEmbeddings
    \/ FromDocuments
    \/ AssignVectorstore
    \/ SetInitialized
    \/ ReturnVectorstore

\* no /forecast request is looked at while the store is studied
NoRequest ==
    /\ pc = "new"
    /\ provider = "ollama"
    /\ task = ""
    /\ env = NoEnv
    /\ tools_used = <<>>
    /\ tool_outputs = <<>>
    /\ transcript_query = ""
    /\ llm_prompt = NoPrompt
    /\ llm_calls = 0
    /\ output_text = ""
    /\ outcome = Running
    /\ NoCaller

\* a freshly imported module and one thread that calls initialize_vectorstore
\* up to MaxCalls times, one call after the other, with any directories
InitStore ==
    /\ NoRequest
    /\ _vectorstore = None
    /\ _initialized = FALSE
    /\ threads = [t \in Threads |->
                     IF t = 1 THEN Waiting("direct", MaxCalls) ELSE Waiting("direct", 0)]
    /\ files \in [Dirs -> DirStates]
    /\ builds = 0

SpecStore == InitStore /\ [][NextStore]_vars

\* a freshly imported module and two requests whose analyze_transcripts calls
\* run in two threads of the server's thread pool
InitStoreRace ==
    /\ NoRequest
    /\ _vectorstore = None
    /\ _initialized = FALSE
    /\ threads = [t \in Threads |-> Waiting("analyze", 1)]
    /\ files \in [Dirs -> DirStates]
    /\ builds = 0

SpecStoreRace == InitStoreRace /\ [][NextStore]_vars

-----------------------------------------------------------------------------
(* The initialized-once store, checked under SpecStore: one thread, its
   calls one after the other *)

\* a call of thread t has returned and the thread has not called again
Returned1(t) == threads[t].pc = "idle" /\ threads[t].calls > 0

\* C21: once a call has built the store, every later call returns that same
\* store and neither loads documents nor builds; a call that builds no store
\* (directory missing, no documents, an exception) returns None and leaves
\* both globals as they were, so the next call enters the try block again;
\* a call takes the cached branch exactly when the store was initialized
C21_InitializedOnce ==
    LET f == threads[1] IN
        /\ (Returned1(1) /\ f.began.init) =>
               /\ f.got = f.began.store
               /\ f.got # None
               /\ ~f.loaded
               /\ builds = f.began.builds
               /\ _vectorstore = f.began.store
        /\ (Returned1(1) /\ ~f.began.init /\ builds = f.began.builds) =>
               /\ f.got = None
               /\ ~_initialized
               /\ _vectorstore = None
        /\ (Returned1(1) /\ ~f.began.init /\ builds # f.began.builds) =>
               /\ builds = f.began.builds + 1
               /\ f.got = Chroma(f.dir, builds)
               /\ _vectorstore = f.got
               /\ _initialized
        /\ f.pc \notin {"idle", "check"} => (f.pc = "cached" <=> f.began.init)

\* a third call finds the store initialized and returns the store an earlier
\* call built from the .pdf files of its directory
C21_Witness ==
    /\ Returned1(1)
    /\ threads[1].calls = 3
    /\ threads[1].began.init
    /\ builds = 1
    /\ threads[1].got = Chroma(threads[1].dir, 1)
    /\ files[threads[1].dir] = "pdf"
    /\ \E d \in Dirs : files[d] = "missing"

\* C22: a call with transcripts directory D that returns an index returns one
\* built from D
C22_KeyedByDirectory ==
    (Returned1(1) /\ threads[1].got # None) => threads[1].got.dir = threads[1].dir

\* what holds instead: every index returned is the one the first successful
\* build made, whatever directory the call named
C22_FirstBuildServesAll ==
    (Returned1(1) /\ threads[1].got # None) =>
        /\ threads[1].got.build = 1
        /\ builds = 1
        /\ (~threads[1].began.init => threads[1].got.dir = threads[1].dir)

\* a call naming one directory got the index built from the other
C22_OtherDirectoryReturned ==
    /\ Returned1(1)
    /\ threads[1].dir = "data/archive"
    /\ threads[1].got = Chroma(DefaultDir, 1)
    /\ files["data/archive"] = "txt"

(* Two concurrent analyze_transcripts calls, checked under SpecStoreRace *)

\* C23: two requests that run analyze_transcripts concurrently on an
\* uninitialized store build it at most once and both use the same store,
\* and _initialized is never true while _vectorstore is None
C23_BuiltAtMostOnce ==
    /\ builds <= 1
    /\ (Returned1(1) /\ Returned1(2) /\ threads[1].got # None /\ threads[2].got # None)
           => threads[1].got = threads[2].got
    /\ _initialized => _vectorstore # None

\* what holds instead: the flag is set only after a store was assigned, a
\* request that gets a store gets one built from the default directory, and
\* every thread that saw the flag false may build
C23_FlagImpliesStore ==
    /\ _initialized => _vectorstore # None
    /\ builds <= 2
    /\ \A t \in Threads :
           (Returned1(t) /\ threads[t].got # None) =>
               /\ threads[t].got.dir = DefaultDir
               /\ threads[t].got.build \in 1..builds

\* both requests built a store and each uses a different one
C23_TwoBuildsTwoStores ==
    /\ Returned1(1) /\ Returned1(2)
    /\ builds = 2
    /\ threads[1].got # None /\ threads[2].got # None
    /\ threads[1].got # threads[2].got

=============================================================================
